---- MODULE Spec2Model ----
(***************************************************************************)
(* Model of rpi-hil-uvsd: the response capture engine,                     *)
(* SerialReceiver.receive_data (src/serial_receiver.py), and further down  *)
(* the expectation matcher, check_output and compare_json_structures       *)
(* (src/output_checker.py).  Each has its own specification: Spec and      *)
(* FairSpec for the capture, CheckSpec for the matcher.                    *)
(*                                                                         *)
(* Time is counted in ticks of half a polling quantum: time.sleep(0.05)    *)
(* lasts PollQuantum ticks, every other statement is instantaneous.  The   *)
(* device and the port are the environment: the device puts one byte at a  *)
(* time into the operating system's input buffer (in_waiting) at any       *)
(* moment, and the port may fail or be closed while the call runs.         *)
(*                                                                         *)
(* Bytes and characters are one-element strings.  "C3" and "A9" are the    *)
(* two bytes of the UTF-8 encoding of U+00E9, written "E9" once decoded;   *)
(* "FFFD" is the replacement character of decode(errors='replace').        *)
(***************************************************************************)
EXTENDS Integers, Sequences, FiniteSets, TLC

VARIABLES
    mode,                 \* receive_data argument: "lines" | "json_object" | "raw_stream"
    overall_timeout_s,    \* receive_data argument, in ticks
    idle_timeout_s,       \* receive_data argument, in ticks
    stop_condition_line,  \* receive_data argument; <<>> stands for None and for ""
    is_open,              \* self.ser is usable (open and not failed)
    stream,               \* bytes the device has still to send
    in_waiting,           \* bytes in the OS input buffer, not yet read
    now,                  \* time.time()
    start_time,           \* local start_time
    last_data_time,       \* local last_data_time
    sleep_left,           \* ticks left of the running time.sleep(0.05)
    buffer,               \* local buffer (decoded characters)
    lines_received,       \* local lines_received
    pc,                   \* position of the call
    end_cause,            \* how the loop ended: "none" | "stop" | "doc" | "overall" | "idle"
    outcome,              \* "none" | "lines" | "doc" | "error" | "raw" | "raised"
    ret_lines,            \* returned list (mode lines)
    ret_text,             \* returned string (raw_stream) or the "buffer" entry of the error dict
    ret_doc,              \* returned parsed document (json_object)
    rx_bytes,             \* history: every byte read so far, in read order
    rx,                   \* history: every decoded chunk read so far, concatenated
    last_arrival,         \* history: time the device sent its last byte (start of call if none)
    spaced,               \* history: no two consecutive bytes of the device (nor the start and
                          \* its first byte) were more than idle_timeout_s - PollQuantum apart
    checker,              \* the call of check_output (src/output_checker.py): its
                          \* arguments, its locals, its position and what it returned
    harness               \* the pin driver, the action executor, the flasher and the
                          \* runner: one record each

\* the variables of receive_data
receiver_vars == <<mode, overall_timeout_s, idle_timeout_s, stop_condition_line, is_open,
                   stream, in_waiting, now, start_time, last_data_time, sleep_left, buffer,
                   lines_received, pc, end_cause, outcome, ret_lines, ret_text, ret_doc,
                   rx_bytes, rx, last_arrival, spaced>>

\* the variables of check_output
checker_vars == <<checker>>

\* the variable of the pin driver, the action executor, the flasher and the runner
harness_vars == <<harness>>

\* GPIOController and the MockGPIO behind it (src/gpio_controller.py)
gpio == harness.gpio

\* the call of emulate_hw_pins_from_file (src/pin_emulator.py)
emulator == harness.emulator

\* the call of flash_firmware (src/stm32_flasher.py)
flasher == harness.flasher

\* the run of main (src/main_runner.py)
runner == harness.runner

\* no controller exists, a function is not running
AtRest == [pc |-> "rest"]

\* a with-block on SerialReceiver or SerialConnection (src/serial_receiver.py,
\* src/serial_utils.py)
transport == harness.transport

Harness(g, e, f, r) ==
    [gpio |-> g, emulator |-> e, flasher |-> f, runner |-> r, transport |-> AtRest]

\* no controller exists and none of the three functions is running
HarnessAtRest == harness = Harness(AtRest, AtRest, AtRest, AtRest)

\* the fields of checker, under the names of the source
received_data == checker.received_data       \* argument received_data_obj_or_list_of_lines

expected_json_path == checker.expected_json_path   \* argument; <<>> is None and ""

expected_file == checker.expected_file        \* what open(expected_json_path) finds

reception_mode == checker.reception_mode

expected_responses_definition == checker.expected_responses_definition

expected_idx == checker.expected_idx

received_idx == checker.received_idx

overall_pass == checker.overall_pass

results_log == checker.results_log

summary == checker.summary      \* the printed summary: "none" | "SKIPPED" | "PASSED" | "FAILED"

check_pc == checker.check_pc    \* position of the call

check_ret == checker.check_ret  \* returned value: "none" | "True" | "False" | "raised"

vars == <<receiver_vars, checker_vars, harness_vars>>

-----------------------------------------------------------------------------
(* Bounds of the model and program constants *)

\* time.sleep(0.05): the polling quantum, in ticks
PollQuantum == 2

\* largest overall timeout tried, in ticks
MaxOverall == 6

\* largest idle timeout tried, in ticks
MaxIdle == 5

\* longest line sequence of the round-trip family
MaxLines == 2

OverallTimeouts == {MaxOverall \div 2, MaxOverall}

IdleTimeouts == {MaxIdle \div 2, MaxIdle - 2, MaxIdle + 2}

Modes == {"lines", "json_object", "raw_stream"}

-----------------------------------------------------------------------------
(* Strings *)

\* the characters str.strip() removes
Whitespace == {" ", "\n", "\r", "\t"}

RECURSIVE LStrip(_)
LStrip(s) ==
    IF s # <<>> /\ Head(s) \in Whitespace THEN LStrip(Tail(s)) ELSE s

RECURSIVE RStrip(_)
RStrip(s) ==
    IF s # <<>> /\ s[Len(s)] \in Whitespace THEN RStrip(SubSeq(s, 1, Len(s) - 1)) ELSE s

\* str.strip()
Strip(s) == RStrip(LStrip(s))

\* str.count(c)
Count(s, c) == Cardinality({i \in 1..Len(s) : s[i] = c})

\* c in s
Contains(s, c) == \E i \in 1..Len(s) : s[i] = c

\* index of the first c in s (s contains c)
IndexOf(s, c) == CHOOSE i \in 1..Len(s) : s[i] = c /\ \A j \in 1..(i - 1) : s[j] # c

\* bytes.decode('utf-8', errors='replace') of one chunk
RECURSIVE Decode(_)
Decode(bs) ==
    IF bs = <<>> THEN <<>>
    ELSE IF Head(bs) = "C3"
         THEN IF Len(bs) >= 2 /\ bs[2] = "A9"
              THEN <<"E9">> \o Decode(SubSeq(bs, 3, Len(bs)))
              ELSE <<"FFFD">> \o Decode(Tail(bs))
         ELSE IF Head(bs) = "A9"
              THEN <<"FFFD">> \o Decode(Tail(bs))
              ELSE <<Head(bs)>> \o Decode(Tail(bs))

\* truth value of a str-or-None argument
Truthy(s) == s # <<>>

-----------------------------------------------------------------------------
(* json.loads on the characters the model uses: objects, strings without   *)
(* escapes, and numbers written with the digit 1.  A value is a record     *)
(* [t, s, m]: its kind, its text (string, number) and its members (object).*)

JObject(members) == [t |-> "object", s |-> <<>>, m |-> members]

JString(chars) == [t |-> "string", s |-> chars, m |-> <<>>]

JNumber(digits) == [t |-> "number", s |-> digits, m |-> <<>>]

JNone == [t |-> "none", s |-> <<>>, m |-> <<>>]

ParseFail == [ok |-> FALSE, pos |-> 0, val |-> JNone]

ParseOk(p, v) == [ok |-> TRUE, pos |-> p, val |-> v]

Digits == {"1"}

\* characters a JSON string may not hold unescaped
ControlChars == {"\n", "\r", "\t"}

\* dict[k] = v: a repeated key keeps its place and takes the last value
DictSet(members, k, v) ==
    IF \E i \in 1..Len(members) : members[i].k = k
    THEN [i \in 1..Len(members) |->
              IF members[i].k = k THEN [k |-> k, v |-> v] ELSE members[i]]
    ELSE Append(members, [k |-> k, v |-> v])

\* first position at or after i that holds no JSON whitespace
RECURSIVE SkipWs(_, _)
SkipWs(s, i) ==
    IF i <= Len(s) /\ s[i] \in Whitespace THEN SkipWs(s, i + 1) ELSE i

\* first position at or after i that holds no digit
RECURSIVE SkipDigits(_, _)
SkipDigits(s, i) ==
    IF i <= Len(s) /\ s[i] \in Digits THEN SkipDigits(s, i + 1) ELSE i

\* a string literal starting at the quote at position i
ParseString(s, i) ==
    IF \E j \in (i + 1)..Len(s) : s[j] = "\""
    THEN LET j == CHOOSE j \in (i + 1)..Len(s) :
                      s[j] = "\"" /\ \A k \in (i + 1)..(j - 1) : s[k] # "\""
             chars == SubSeq(s, i + 1, j - 1)
         IN  IF \E k \in 1..Len(chars) : chars[k] \in ControlChars
             THEN ParseFail
             ELSE ParseOk(j + 1, JString(chars))
    ELSE ParseFail

RECURSIVE ParseValue(_, _)
RECURSIVE ParseMembers(_, _, _)

\* the members of an object from position i (whitespace skipped), after "{" or ","
ParseMembers(s, i, acc) ==
    IF i > Len(s) \/ s[i] # "\"" THEN ParseFail
    ELSE LET key == ParseString(s, i)
             colon == SkipWs(s, key.pos)
         IN  IF ~key.ok \/ colon > Len(s) \/ s[colon] # ":" THEN ParseFail
             ELSE LET item == ParseValue(s, SkipWs(s, colon + 1))
                      after == SkipWs(s, item.pos)
                      acc2 == DictSet(acc, key.val.s, item.val)
                  IN  IF ~item.ok \/ after > Len(s) THEN ParseFail
                      ELSE IF s[after] = "}" THEN ParseOk(after + 1, JObject(acc2))
                      ELSE IF s[after] = "," THEN ParseMembers(s, SkipWs(s, after + 1), acc2)
                      ELSE ParseFail

\* one JSON value starting at position i (whitespace skipped)
ParseValue(s, i) ==
    IF i > Len(s) THEN ParseFail
    ELSE IF s[i] = "{"
         THEN LET j == SkipWs(s, i + 1)
              IN  IF j <= Len(s) /\ s[j] = "}" THEN ParseOk(j + 1, JObject(<<>>))
                  ELSE ParseMembers(s, j, <<>>)
    ELSE IF s[i] = "\"" THEN ParseString(s, i)
    ELSE IF s[i] \in Digits
         THEN LET j == SkipDigits(s, i) IN ParseOk(j, JNumber(SubSeq(s, i, j - 1)))
    ELSE ParseFail

\* the decoder: one value, then nothing but whitespace; ~ok is JSONDecodeError
JsonDecode(s) ==
    LET r == ParseValue(s, SkipWs(s, 1))
    IN  IF r.ok /\ SkipWs(s, r.pos) > Len(s) THEN r ELSE ParseFail

\* the byte streams a device may send in json_object mode
JsonScripts ==
    {<<"{", "\"", "a", "\"", ":", "{", "}", "}">>,
     <<"x", "{", "}">>,
     <<"{", "}", ">">>,
     <<" ", "{", "a", "}">>,
     <<"1">>}

\* every contiguous part of those streams: the texts receive_data can hand to json.loads
JsonInputs ==
    UNION {{SubSeq(d, i, j) : i \in 1..Len(d), j \in 0..Len(d)} : d \in JsonScripts}

\* the decoder tabulated over JsonInputs, computed once
JsonTable == [s \in JsonInputs |-> JsonDecode(s)]

\* json.loads(s)
JsonLoads(s) == IF s \in JsonInputs THEN JsonTable[s] ELSE JsonDecode(s)

-----------------------------------------------------------------------------
(* The conditions and steps of receive_data *)

\* variant of LoopCond: the deadline itself still starts an iteration (<= for <)
LoopCondLate(t, start, overall) == (t - start) <= overall

\* while (time.time() - start_time) < overall_timeout_s
LoopCond(t, start, overall) == (t - start) < overall

\* variant of IdleExpired: the idle timeout fires on reaching the limit (>= for >)
IdleExpiredGE(t, last, idle) == (t - last) >= idle

\* if (time.time() - last_data_time) > idle_timeout_s
IdleExpired(t, last, idle) == (t - last) > idle

\* variant of MidJson: balanced braces count as an unfinished document (>= for >)
MidJsonBalanced(m, buf) == m = "json_object" /\ Count(buf, "{") >= Count(buf, "}")

\* mode == "json_object" and buffer.count('{') > buffer.count('}')
MidJson(m, buf) == m = "json_object" /\ Count(buf, "{") > Count(buf, "}")

\* variant of AppendChunk: the chunk replaces the buffer (= for +=)
AppendChunkReplace(buf, chunk) == chunk

\* buffer += data_chunk
AppendChunk(buf, chunk) == buf \o chunk

\* stop_condition_line and processed_line == stop_condition_line
StopMet(stop, processed) == Truthy(stop) /\ processed = stop

\* variant of SplitLines: the stop line only leaves the inner loop (break for return)
RECURSIVE SplitLinesBreak(_, _, _)
SplitLinesBreak(buf, lines, stop) ==
    IF ~Contains(buf, "\n")
    THEN [buffer |-> buf, lines |-> lines, stopped |-> FALSE]
    ELSE LET i == IndexOf(buf, "\n")
             rest == SubSeq(buf, i + 1, Len(buf))
             processed_line == Strip(SubSeq(buf, 1, i - 1))
             lines2 == Append(lines, processed_line)
         IN  IF StopMet(stop, processed_line)
             THEN [buffer |-> rest, lines |-> lines2, stopped |-> FALSE]
             ELSE SplitLinesBreak(rest, lines2, stop)

\* while '\n' in buffer: split off one line, strip it, append it, test the stop line
RECURSIVE SplitLines(_, _, _)
SplitLines(buf, lines, stop) ==
    IF ~Contains(buf, "\n")
    THEN [buffer |-> buf, lines |-> lines, stopped |-> FALSE]
    ELSE LET i == IndexOf(buf, "\n")
             rest == SubSeq(buf, i + 1, Len(buf))
             processed_line == Strip(SubSeq(buf, 1, i - 1))
             lines2 == Append(lines, processed_line)
         IN  IF StopMet(stop, processed_line)
             THEN [buffer |-> rest, lines |-> lines2, stopped |-> TRUE]
             ELSE SplitLines(rest, lines2, stop)

\* buffer.strip().startswith('{') and buffer.strip().endswith('}')
LooksLikeJson(buf) ==
    LET s == Strip(buf) IN s # <<>> /\ s[1] = "{" /\ s[Len(s)] = "}"

\* first "{" and last "}" of s, when s holds both in that order
HasBraces(s) ==
    /\ Contains(s, "{")
    /\ Contains(s, "}")
    /\ IndexOf(s, "{") < CHOOSE i \in 1..Len(s) : s[i] = "}" /\ \A j \in (i + 1)..Len(s) : s[j] # "}"

BraceSpan(s) ==
    SubSeq(s, IndexOf(s, "{"),
           CHOOSE i \in 1..Len(s) : s[i] = "}" /\ \A j \in (i + 1)..Len(s) : s[j] # "}")

\* variant of LoopParse: the span from the first "{" to the last "}" is parsed
LoopParseSpan(buf) == IF HasBraces(buf) THEN JsonLoads(BraceSpan(buf)) ELSE ParseFail

\* the parse attempt inside the loop: json.loads(buffer.strip()) when it looks complete
LoopParse(buf) == IF LooksLikeJson(buf) THEN JsonLoads(Strip(buf)) ELSE ParseFail

\* variant of FlushRemainder: the remainder is dropped at termination
FlushNever(lines, buf) == lines

\* if buffer.strip(): lines_received.append(buffer.strip())
FlushRemainder(lines, buf) ==
    IF Strip(buf) # <<>> THEN Append(lines, Strip(buf)) ELSE lines

\* variant of ErrorBuffer: the buffer is reported without strip()
ErrorBufferRaw(buf) == buf

\* the value of the "buffer" entry of the error dict
ErrorBuffer(buf) == Strip(buf)

\* return buffer.strip() in raw_stream mode
RawResult(buf) == Strip(buf)

Terminated == pc \in {"returned", "raised"}

-----------------------------------------------------------------------------
(* What the device may send *)

\* str.encode('utf-8') of the device's text
RECURSIVE Encode(_)
Encode(cs) ==
    IF cs = <<>> THEN <<>>
    ELSE IF Head(cs) = "E9" THEN <<"C3", "A9">> \o Encode(Tail(cs))
    ELSE <<Head(cs)>> \o Encode(Tail(cs))

\* "\n".join(ls)
RECURSIVE JoinLines(_)
JoinLines(ls) ==
    IF ls = <<>> THEN <<>>
    ELSE IF Len(ls) = 1 THEN ls[1]
    ELSE ls[1] \o <<"\n">> \o JoinLines(Tail(ls))

\* the lines of the round-trip family
LineAlphabet == {<<>>, <<"A">>, <<"E9">>}

\* line sequences without newline or surrounding whitespace, the last one not empty
RoundTripLines ==
    {ls \in UNION {[1..n -> LineAlphabet] : n \in 0..MaxLines} :
        ls # <<>> => ls[Len(ls)] # <<>>}

LineScripts ==
    {Encode(JoinLines(ls)) : ls \in RoundTripLines}
    \cup {<<"A", "\n", "S", "\n", "C", "\n">>,
          <<" ", "A", "\r", "\n", "B", " ">>,
          <<"A", "\n", " ">>}

RawScripts ==
    {<<" ", "A", "\r", "\n", "B", " ">>,
     <<"A", "\n", "S", "\n", "C", "\n">>,
     <<"{", "}", ">">>}

ScriptsFor(m) ==
    IF m = "lines" THEN LineScripts
    ELSE IF m = "json_object" THEN JsonScripts
    ELSE RawScripts

StopLinesFor(m) == IF m = "json_object" THEN {<<>>} ELSE {<<>>, <<"S">>}

-----------------------------------------------------------------------------
(* The state machine *)

\* check_output is not running
CheckerAtRest == checker = [check_pc |-> "rest"]

Init ==
    /\ mode \in Modes
    /\ overall_timeout_s \in OverallTimeouts
    /\ idle_timeout_s \in IdleTimeouts
    /\ stop_condition_line \in StopLinesFor(mode)
    /\ stream \in ScriptsFor(mode)
    /\ is_open \in BOOLEAN
    /\ in_waiting = <<>>
    /\ now = 0
    /\ start_time = 0
    /\ last_data_time = 0
    /\ sleep_left = 0
    /\ buffer = <<>>
    /\ lines_received = <<>>
    /\ pc = "call"
    /\ end_cause = "none"
    /\ outcome = "none"
    /\ ret_lines = <<>>
    /\ ret_text = <<>>
    /\ ret_doc = JNone
    /\ rx_bytes = <<>>
    /\ rx = <<>>
    /\ last_arrival = 0
    /\ spaced = TRUE
    /\ CheckerAtRest
    /\ HarnessAtRest

\* the device sends its next byte
Send ==
    /\ UNCHANGED <<checker_vars, harness_vars>>
    /\ ~Terminated
    /\ is_open
    /\ stream # <<>>
    /\ in_waiting' = Append(in_waiting, Head(stream))
    /\ stream' = Tail(stream)
    /\ last_arrival' = now
    /\ spaced' = (spaced /\ (now - last_arrival) <= idle_timeout_s - PollQuantum)
    /\ UNCHANGED <<mode, overall_timeout_s, idle_timeout_s, stop_condition_line, is_open,
                   now, start_time, last_data_time, sleep_left, buffer, lines_received,
                   pc, end_cause, outcome, ret_lines, ret_text, ret_doc, rx_bytes, rx>>

\* the port fails or is closed while the call runs.  The call observes the port
\* only at self.ser.in_waiting, so a failure is placed right before that probe or
\* in the sleep that precedes it
PortFail ==
    /\ UNCHANGED <<checker_vars, harness_vars>>
    /\ pc \in {"poll", "sleep"}
    /\ is_open
    /\ is_open' = FALSE
    /\ UNCHANGED <<mode, overall_timeout_s, idle_timeout_s, stop_condition_line, stream,
                   in_waiting, now, start_time, last_data_time, sleep_left, buffer,
                   lines_received, pc, end_cause, outcome, ret_lines, ret_text, ret_doc,
                   rx_bytes, rx, last_arrival, spaced>>

\* raise SerialReceiverError
Raise ==
    /\ pc' = "raised"
    /\ outcome' = "raised"
    /\ UNCHANGED <<mode, overall_timeout_s, idle_timeout_s, stop_condition_line, is_open,
                   stream, in_waiting, now, start_time, last_data_time, sleep_left, buffer,
                   lines_received, end_cause, ret_lines, ret_text, ret_doc, rx_bytes, rx,
                   last_arrival, spaced>>

\* entry of receive_data: the connection test and the locals
Call ==
    /\ UNCHANGED <<checker_vars, harness_vars>>
    /\ pc = "call"
    /\ IF ~is_open
       THEN Raise
       ELSE /\ buffer' = <<>>
            /\ lines_received' = <<>>
            /\ start_time' = now
            /\ last_data_time' = now
            /\ last_arrival' = now
            /\ pc' = "loop"
            /\ UNCHANGED <<mode, overall_timeout_s, idle_timeout_s, stop_condition_line,
                           is_open, stream, in_waiting, now, sleep_left, end_cause,
                           outcome, ret_lines, ret_text, ret_doc, rx_bytes, rx, spaced>>

\* top of an iteration: the while condition, then the idle test
LoopCheck ==
    /\ UNCHANGED <<checker_vars, harness_vars>>
    /\ pc = "loop"
    /\ IF ~LoopCond(now, start_time, overall_timeout_s)
       THEN pc' = "finish" /\ end_cause' = "overall"
       ELSE IF IdleExpired(now, last_data_time, idle_timeout_s) /\ ~MidJson(mode, buffer)
       THEN pc' = "finish" /\ end_cause' = "idle"
       ELSE pc' = "poll" /\ end_cause' = end_cause
    /\ UNCHANGED <<mode, overall_timeout_s, idle_timeout_s, stop_condition_line, is_open,
                   stream, in_waiting, now, start_time, last_data_time, sleep_left, buffer,
                   lines_received, outcome, ret_lines, ret_text, ret_doc, rx_bytes, rx,
                   last_arrival, spaced>>

\* self.ser.in_waiting, then read(bytes_available) or the start of time.sleep(0.05)
Poll ==
    /\ UNCHANGED <<checker_vars, harness_vars>>
    /\ pc = "poll"
    /\ IF ~is_open
       THEN Raise
       ELSE IF Len(in_waiting) > 0
       THEN /\ buffer' = AppendChunk(buffer, Decode(in_waiting))
            /\ last_data_time' = now
            /\ rx_bytes' = rx_bytes \o in_waiting
            /\ rx' = rx \o Decode(in_waiting)
            /\ in_waiting' = <<>>
            /\ pc' = "process"
            /\ UNCHANGED <<mode, overall_timeout_s, idle_timeout_s, stop_condition_line,
                           is_open, stream, now, start_time, sleep_left, lines_received,
                           end_cause, outcome, ret_lines, ret_text, ret_doc, last_arrival, spaced>>
       ELSE /\ sleep_left' = PollQuantum
            /\ pc' = "sleep"
            /\ UNCHANGED <<mode, overall_timeout_s, idle_timeout_s, stop_condition_line,
                           is_open, stream, in_waiting, now, start_time, last_data_time,
                           buffer, lines_received, end_cause, outcome, ret_lines, ret_text,
                           ret_doc, rx_bytes, rx, last_arrival, spaced>>

\* one tick of time.sleep(0.05)
SleepTick ==
    /\ UNCHANGED <<checker_vars, harness_vars>>
    /\ pc = "sleep"
    /\ now' = now + 1
    /\ sleep_left' = sleep_left - 1
    /\ pc' = IF sleep_left = 1 THEN "process" ELSE "sleep"
    /\ UNCHANGED <<mode, overall_timeout_s, idle_timeout_s, stop_condition_line, is_open,
                   stream, in_waiting, start_time, last_data_time, buffer, lines_received,
                   end_cause, outcome, ret_lines, ret_text, ret_doc, rx_bytes, rx,
                   last_arrival, spaced>>

\* the mode's processing of the buffer at the end of an iteration
Process ==
    /\ UNCHANGED <<checker_vars, harness_vars>>
    /\ pc = "process"
    /\ IF mode = "lines"
       THEN LET r == SplitLines(buffer, lines_received, stop_condition_line)
            IN  /\ buffer' = r.buffer
                /\ lines_received' = r.lines
                /\ IF r.stopped
                   THEN /\ pc' = "returned"
                        /\ end_cause' = "stop"
                        /\ outcome' = "lines"
                        /\ ret_lines' = r.lines
                   ELSE /\ pc' = "loop"
                        /\ UNCHANGED <<end_cause, outcome, ret_lines>>
                /\ UNCHANGED ret_doc
       ELSE IF mode = "json_object" /\ LoopParse(buffer).ok
       THEN /\ pc' = "returned"
            /\ end_cause' = "doc"
            /\ outcome' = "doc"
            /\ ret_doc' = LoopParse(buffer).val
            /\ UNCHANGED <<buffer, lines_received, ret_lines>>
       ELSE /\ pc' = "loop"
            /\ UNCHANGED <<buffer, lines_received, end_cause, outcome, ret_lines, ret_doc>>
    /\ UNCHANGED <<mode, overall_timeout_s, idle_timeout_s, stop_condition_line, is_open,
                   stream, in_waiting, now, start_time, last_data_time, sleep_left,
                   ret_text, rx_bytes, rx, last_arrival, spaced>>

\* after the loop: the mode's result
Finish ==
    /\ UNCHANGED <<checker_vars, harness_vars>>
    /\ pc = "finish"
    /\ pc' = "returned"
    /\ IF mode = "lines"
       THEN /\ lines_received' = FlushRemainder(lines_received, buffer)
            /\ ret_lines' = FlushRemainder(lines_received, buffer)
            /\ outcome' = "lines"
            /\ UNCHANGED <<ret_text, ret_doc>>
       ELSE IF mode = "json_object"
       THEN /\ IF JsonLoads(Strip(buffer)).ok
               THEN /\ outcome' = "doc"
                    /\ ret_doc' = JsonLoads(Strip(buffer)).val
                    /\ UNCHANGED ret_text
               ELSE /\ outcome' = "error"
                    /\ ret_text' = ErrorBuffer(buffer)
                    /\ UNCHANGED ret_doc
            /\ UNCHANGED <<lines_received, ret_lines>>
       ELSE /\ outcome' = "raw"
            /\ ret_text' = RawResult(buffer)
            /\ UNCHANGED <<lines_received, ret_lines, ret_doc>>
    /\ UNCHANGED <<mode, overall_timeout_s, idle_timeout_s, stop_condition_line, is_open,
                   stream, in_waiting, now, start_time, last_data_time, sleep_left, buffer,
                   end_cause, rx_bytes, rx, last_arrival, spaced>>

\* the steps of receive_data
Receive == Call \/ LoopCheck \/ Poll \/ SleepTick \/ Process \/ Finish

Next == Send \/ PortFail \/ Call \/ LoopCheck \/ Poll \/ SleepTick \/ Process \/ Finish

Spec == Init /\ [][Next]_vars

\* the single thread of the run keeps executing receive_data
FairSpec == Spec /\ WF_vars(Receive)

-----------------------------------------------------------------------------
(* Reference segmentation of everything read so far, by newline positions *)

NewlineAt(s) == {i \in 1..Len(s) : s[i] = "\n"}

\* position of the n-th newline of s; 0 for n = 0
NthNewline(s, n) ==
    IF n = 0 THEN 0
    ELSE CHOOSE i \in NewlineAt(s) : Cardinality({j \in NewlineAt(s) : j <= i}) = n

\* the newline-terminated lines of s, each trimmed
TerminatedLines(s) ==
    [n \in 1..Cardinality(NewlineAt(s)) |->
        Strip(SubSeq(s, NthNewline(s, n - 1) + 1, NthNewline(s, n) - 1))]

\* what follows the last newline of s
Remainder(s) == SubSeq(s, NthNewline(s, Cardinality(NewlineAt(s))) + 1, Len(s))

\* the terminated lines, then the trimmed remainder when it is not empty
LinesWithRemainder(s) ==
    TerminatedLines(s) \o
        (IF Strip(Remainder(s)) # <<>> THEN <<Strip(Remainder(s))>> ELSE <<>>)

InLines(ls, l) == \E i \in 1..Len(ls) : ls[i] = l

StopConfigured == mode = "lines" /\ stop_condition_line # <<>>

-----------------------------------------------------------------------------
(* Claims about receive_data *)

\* C1: in lines mode with a stop line, the call returns as soon as an extracted,
\* trimmed line equals the stop line: no running call holds the stop line among
\* its lines; a call ended by the stop line returns the terminated lines read so
\* far up to the first one equal to the stop line, which is its last element; and
\* a call that read a terminated stop line ended there, so no later line is returned.
C1_StopLine ==
    StopConfigured =>
        /\ ~Terminated => ~InLines(lines_received, stop_condition_line)
        /\ end_cause = "stop" =>
              /\ outcome = "lines"
              /\ ret_lines # <<>>
              /\ ret_lines[Len(ret_lines)] = stop_condition_line
              /\ ~InLines(SubSeq(ret_lines, 1, Len(ret_lines) - 1), stop_condition_line)
              /\ Len(ret_lines) <= Len(TerminatedLines(rx))
              /\ ret_lines = SubSeq(TerminatedLines(rx), 1, Len(ret_lines))
        /\ (outcome = "lines" /\ InLines(TerminatedLines(rx), stop_condition_line)) =>
              end_cause = "stop"

\* C1 witness: the call ended at the stop line after earlier lines, while a later
\* line had arrived in the same read
C1_Witness ==
    /\ StopConfigured
    /\ end_cause = "stop"
    /\ Len(ret_lines) >= 2
    /\ Len(TerminatedLines(rx)) > Len(ret_lines)

\* C2 (as claimed): in lines and raw_stream modes the loop is ended by the idle
\* timeout only when the time since the device's last byte (since the start of the
\* call if it sent none) has reached idle_timeout_s
C2_IdleOnlyAfterSilence ==
    [][(mode \in {"lines", "raw_stream"} /\ pc = "loop" /\ end_cause' = "idle")
          => (now - last_arrival) >= idle_timeout_s]_vars

\* C2 (amended): in lines and raw_stream modes the loop is ended by the idle timeout
\* exactly when, at the top of an iteration before the overall deadline, more than
\* idle_timeout_s has passed since the last read that returned data (the start of
\* the call if none did); so an idle end comes only after the device let more than
\* idle_timeout_s - PollQuantum pass without a byte
C2_IdleByReadTime ==
    mode \in {"lines", "raw_stream"} =>
        /\ end_cause = "idle" =>
              /\ (now - last_data_time) > idle_timeout_s
              /\ (now - start_time) < overall_timeout_s
              /\ ~spaced \/ (now - last_arrival) > idle_timeout_s - PollQuantum
        /\ pc = "poll" => (now - last_data_time) <= idle_timeout_s

\* C2 witness: a device sent data, went silent, and the idle timeout ended the call
\* before the overall deadline
C2_Witness ==
    /\ mode \in {"lines", "raw_stream"}
    /\ pc = "returned"
    /\ end_cause = "idle"
    /\ rx # <<>>
    /\ in_waiting = <<>>
    /\ spaced
    /\ (now - start_time) < overall_timeout_s

\* C3: in json_object mode the idle timeout ends the loop only when the buffer does
\* not hold more "{" than "}" (and the idle time is exceeded), and an iteration that
\* goes on polling with the idle time exceeded holds more "{" than "}"
C3_MidJsonIdle ==
    mode = "json_object" =>
        /\ end_cause = "idle" =>
              /\ Count(buffer, "{") <= Count(buffer, "}")
              /\ (now - last_data_time) > idle_timeout_s
              /\ (now - start_time) < overall_timeout_s
        /\ (pc = "poll" /\ (now - last_data_time) > idle_timeout_s) =>
              Count(buffer, "{") > Count(buffer, "}")

\* C3 witness: an unfinished document keeps the call polling past the idle timeout
C3_Witness ==
    /\ mode = "json_object"
    /\ pc = "poll"
    /\ (now - last_data_time) > idle_timeout_s
    /\ Count(buffer, "{") > Count(buffer, "}")

\* C4: every call ends, no iteration polls once the overall timeout has elapsed,
\* the call never runs a full polling quantum past the overall deadline, and an
\* idle timeout larger than the overall timeout never ends the loop
C4_Terminates ==
    /\ [](pc = "poll" => (now - start_time) < overall_timeout_s)
    /\ []((now - start_time) < overall_timeout_s + PollQuantum)
    /\ [](idle_timeout_s > overall_timeout_s => end_cause # "idle")
    /\ <>Terminated

\* C4 witness: a call with an idle timeout above the overall timeout, whose device
\* still has bytes to send, has returned at the overall deadline
C4_Witness ==
    /\ pc = "returned"
    /\ end_cause = "overall"
    /\ idle_timeout_s > overall_timeout_s
    /\ stream # <<>>
    /\ rx # <<>>

\* C5: in lines mode, while the call runs its lines are exactly the newline-
\* terminated lines read so far, trimmed, and its buffer is the unterminated rest;
\* a call ended by a timeout returns those lines followed by the trimmed rest iff
\* that is not empty
C5_LinesAndRemainder ==
    mode = "lines" =>
        /\ pc \in {"loop", "poll", "sleep", "finish"} =>
              /\ lines_received = TerminatedLines(rx)
              /\ buffer = Remainder(rx)
        /\ (outcome = "lines" /\ end_cause \in {"overall", "idle"}) =>
              ret_lines = LinesWithRemainder(rx)

\* C5 witness: a timeout ended a call that had read a terminated line and an
\* unterminated, non-blank rest
C5_Witness ==
    /\ mode = "lines"
    /\ outcome = "lines"
    /\ end_cause \in {"overall", "idle"}
    /\ TerminatedLines(rx) # <<>>
    /\ Strip(Remainder(rx)) # <<>>

\* C6 (as claimed): a sequence of lines joined with newline, encoded and read to its
\* last byte in lines mode without a stop line comes back as the same sequence,
\* however the bytes fall into reads
C6_RoundTrip ==
    \A ls \in RoundTripLines :
        (/\ mode = "lines"
         /\ stop_condition_line = <<>>
         /\ outcome = "lines"
         /\ rx_bytes = Encode(JoinLines(ls))) => ret_lines = ls

\* C7 (as claimed): in json_object mode no call goes on past its processing step
\* with a buffer whose span from the first "{" to the last "}" parses
C7_FirstToLastBrace ==
    (mode = "json_object" /\ pc \in {"loop", "poll", "sleep", "finish"} /\ HasBraces(buffer))
        => ~JsonLoads(BraceSpan(buffer)).ok

\* C7 (amended): in json_object mode the call returns from inside the loop exactly
\* when the whole buffer, trimmed, starts with "{", ends with "}" and parses; it
\* then returns that object.  No call goes on past its processing step with such
\* a buffer, and no call returns from the loop with other text around the document.
C7_WholeBufferParses ==
    mode = "json_object" =>
        /\ pc \in {"loop", "poll", "sleep", "finish"} =>
              LET s == Strip(buffer)
              IN  ~(s # <<>> /\ s[1] = "{" /\ s[Len(s)] = "}" /\ JsonDecode(s).ok)
        /\ end_cause = "doc" =>
              LET s == Strip(rx)
              IN  /\ s # <<>> /\ s[1] = "{" /\ s[Len(s)] = "}"
                  /\ JsonDecode(s).ok
                  /\ outcome = "doc"
                  /\ ret_doc = JsonDecode(s).val
                  /\ ret_doc.t = "object"

\* C7 witness: a document with a nested object was returned from inside the loop
C7_Witness ==
    /\ mode = "json_object"
    /\ end_cause = "doc"
    /\ outcome = "doc"
    /\ ret_doc.m # <<>>

C9_RawStream ==
    mode = "raw_stream" =>
        /\ ~Terminated => (buffer = rx /\ lines_received = <<>>)
        /\ pc = "returned" =>
              /\ outcome = "raw"
              /\ end_cause \in {"overall", "idle"}
              /\ ret_text = Strip(rx)

\* C9 witness: a raw capture with a stop line configured returned text that holds
\* the stop line as a full line, a newline inside, and was trimmed
C9_Witness ==
    /\ mode = "raw_stream"
    /\ outcome = "raw"
    /\ stop_condition_line # <<>>
    /\ InLines(TerminatedLines(rx), stop_condition_line)
    /\ Contains(ret_text, "\n")
    /\ ret_text # rx

\* C10 (as claimed): a call whose port failed or was closed while it ran ends by
\* raising, never by returning a result
C10_ClosureIsTerminal == pc = "returned" => is_open

-----------------------------------------------------------------------------
(***************************************************************************)
(* The expectation matcher: compare_json_structures and check_output       *)
(* (src/output_checker.py).                                                *)
(*                                                                         *)
(* Python values are the records [t, s, m] of the decoder above, with the  *)
(* kinds "array" (m: the items), "boolean" (s: <<"1">> for True, <<"0">>   *)
(* for False) added; JNone is None, which is also what JSON null loads to. *)
(* A str is the sequence of its characters.                                *)
(***************************************************************************)

JArray(items) == [t |-> "array", s |-> <<>>, m |-> items]

JBool(b) == [t |-> "boolean", s |-> IF b THEN <<"1">> ELSE <<"0">>, m |-> <<>>]

\* the string literals of output_checker.py
K_type == <<"t", "y", "p", "e">>

K_value == <<"v", "a", "l", "u", "e">>

K_pattern == <<"p", "a", "t", "t", "e", "r", "n">>

K_count == <<"c", "o", "u", "n", "t">>

K_reception_mode == <<"r", "e", "c", "e", "p", "t", "i", "o", "n", "_", "m", "o", "d", "e">>

K_expected_responses == <<"e", "x", "p", "e", "c", "t", "e", "d", "_", "r", "e", "s", "p", "o", "n", "s", "e", "s">>

K_optional == <<"$", "o", "p", "t", "i", "o", "n", "a", "l">>

K_comment == <<"$", "c", "o", "m", "m", "e", "n", "t">>

K_error == <<"e", "r", "r", "o", "r">>

K_buffer == <<"b", "u", "f", "f", "e", "r">>

S_lines == <<"l", "i", "n", "e", "s">>

S_json_object == <<"j", "s", "o", "n", "_", "o", "b", "j", "e", "c", "t">>

S_exact_line == <<"e", "x", "a", "c", "t", "_", "l", "i", "n", "e">>

S_contains_string == <<"c", "o", "n", "t", "a", "i", "n", "s", "_", "s", "t", "r", "i", "n", "g">>

S_regex_match == <<"r", "e", "g", "e", "x", "_", "m", "a", "t", "c", "h">>

S_ignore_line_count == <<"i", "g", "n", "o", "r", "e", "_", "l", "i", "n", "e", "_", "c", "o", "u", "n", "t">>

S_ANY == <<"A", "N", "Y">>

S_ANY_OR_MISSING == <<"A", "N", "Y", "_", "O", "R", "_", "M", "I", "S", "S", "I", "N", "G">>

P_TYPE == <<"T", "Y", "P", "E", ":">>

P_REGEX == <<"R", "E", "G", "E", "X", ":">>

P_VALUE_GT == <<"V", "A", "L", "U", "E", "_", "G", "T", ":">>

P_VALUE_GTE == <<"V", "A", "L", "U", "E", "_", "G", "T", "E", ":">>

P_CHOICE == <<"C", "H", "O", "I", "C", "E", ":", "[">>

T_string == <<"s", "t", "r", "i", "n", "g">>

T_number == <<"n", "u", "m", "b", "e", "r">>

T_boolean == <<"b", "o", "o", "l", "e", "a", "n">>

T_array == <<"a", "r", "r", "a", "y">>

T_object == <<"o", "b", "j", "e", "c", "t">>

T_null == <<"n", "u", "l", "l">>

\* key in d
DictHas(d, key) == \E i \in 1..Len(d.m) : d.m[i].k = key

\* d.get(key, default)
DictGet(d, key, default) ==
    IF DictHas(d, key)
    THEN d.m[CHOOSE i \in 1..Len(d.m) : d.m[i].k = key].v
    ELSE default

\* s.startswith(prefix)
StartsWith(s, prefix) ==
    Len(s) >= Len(prefix) /\ SubSeq(s, 1, Len(prefix)) = prefix

\* s.split(":", 1)[1] for an s that holds a colon
AfterColon(s) == SubSeq(s, IndexOf(s, ":") + 1, Len(s))

\* isinstance(v, (int, float)): bool is a subclass of int
IsIntOrFloat(v) == v.t \in {"number", "boolean"}

\* the value of one decimal digit
DigitValue(c) ==
    CASE c = "0" -> 0 [] c = "1" -> 1 [] c = "2" -> 2 [] c = "3" -> 3 [] c = "4" -> 4
      [] c = "5" -> 5 [] c = "6" -> 6 [] c = "7" -> 7 [] c = "8" -> 8 [] c = "9" -> 9

DecimalDigits == {"0", "1", "2", "3", "4", "5", "6", "7", "8", "9"}

\* the number a non-empty digit string denotes
RECURSIVE DigitsValue(_)
DigitsValue(ds) ==
    IF Len(ds) = 0 THEN 0
    ELSE 10 * DigitsValue(SubSeq(ds, 1, Len(ds) - 1)) + DigitValue(ds[Len(ds)])

\* the number a Python int or bool stands for in a comparison
NumberOf(v) == IF v.t = "boolean" THEN DigitValue(v.s[1]) ELSE DigitsValue(v.s)

\* a == b for a pair of values of which at most one is a container
PyEq(a, b) ==
    IF IsIntOrFloat(a) /\ IsIntOrFloat(b) THEN NumberOf(a) = NumberOf(b)
    ELSE a.t = b.t /\ a.t \in {"string", "none"} /\ a.s = b.s

-----------------------------------------------------------------------------
(* compare_json_structures.  Its result is [raised, d]: d is the list of   *)
(* discrepancies, each [kind, path] (the message without the values it     *)
(* quotes); raised tells that re.error left the function instead.          *)

Discrepancy(kind, path) == [kind |-> kind, path |-> path]

Returns(d) == [raised |-> FALSE, d |-> d]

Raises == [raised |-> TRUE, d |-> <<>>]

\* f"{path}.{key}"
KeyPath(path, key) == path \o <<".">> \o key

\* str(i) for an index below ten
IndexChar(i) ==
    CASE i = 0 -> "0" [] i = 1 -> "1" [] i = 2 -> "2" [] i = 3 -> "3" [] i = 4 -> "4"
      [] i = 5 -> "5" [] i = 6 -> "6" [] i = 7 -> "7" [] i = 8 -> "8" [] i = 9 -> "9"

\* f"{path}[{i}]"
ItemPath(path, i) == path \o <<"[", IndexChar(i), "]">>

RootPath == <<"r", "o", "o", "t">>

\* type_map: the kinds isinstance(received_obj, type_map[type_name]) accepts
TypeMap(type_name) ==
    IF type_name = T_string THEN {"string"}
    ELSE IF type_name = T_number THEN {"number", "boolean"}
    ELSE IF type_name = T_boolean THEN {"boolean"}
    ELSE IF type_name = T_array THEN {"array"}
    ELSE IF type_name = T_object THEN {"object"}
    ELSE IF type_name = T_null THEN {"none"}
    ELSE {}

TypeNames == {T_string, T_number, T_boolean, T_array, T_object, T_null}

\* re.compile(pattern) succeeds.  Patterns are made of literal characters and
\* "."; "(" opens a group that nothing closes
RegexCompiles(pattern) == \A i \in 1..Len(pattern) : pattern[i] # "("

\* re.search(pattern, text) finds a match, for a pattern that compiles
RegexSearch(pattern, text) ==
    \E o \in 0..(Len(text) - Len(pattern)) :
        \A i \in 1..Len(pattern) : pattern[i] = "." \/ pattern[i] = text[o + i]

\* float(text) succeeds: a non-empty string of decimal digits
FloatParses(text) == Len(text) > 0 /\ \A i \in 1..Len(text) : text[i] \in DecimalDigits

\* the received key may be absent (lines 18-22)
MissingAllowedAny(exp_val) ==
    \/ exp_val.t = "string" /\ exp_val.s \in {S_ANY_OR_MISSING, S_ANY}
    \/ exp_val.t = "object" /\ DictGet(exp_val, K_optional, JNone) = JBool(TRUE)

MissingAllowed(exp_val) ==
    \/ exp_val.t = "string" /\ exp_val.s = S_ANY_OR_MISSING
    \/ exp_val.t = "object" /\ DictGet(exp_val, K_optional, JNone) = JBool(TRUE)

\* the branch for an expected str (lines 44-96)
CompareValidator(received_obj, expected, path) ==
    IF expected = S_ANY THEN Returns(<<>>)
    ELSE IF expected = S_ANY_OR_MISSING THEN Returns(<<>>)
    ELSE IF StartsWith(expected, P_TYPE)
    THEN LET type_name == AfterColon(expected)
         IN  IF type_name \notin TypeNames
             THEN Returns(<<Discrepancy("invalid_type", path)>>)
             ELSE IF received_obj.t \notin TypeMap(type_name)
             THEN Returns(<<Discrepancy("type_mismatch", path)>>)
             ELSE Returns(<<>>)
    ELSE IF StartsWith(expected, P_REGEX)
    THEN LET pattern == AfterColon(expected)
         IN  IF received_obj.t # "string"
             THEN Returns(<<Discrepancy("regex_mismatch", path)>>)
             ELSE IF ~RegexCompiles(pattern) THEN Raises
             ELSE IF ~RegexSearch(pattern, received_obj.s)
             THEN Returns(<<Discrepancy("regex_mismatch", path)>>)
             ELSE Returns(<<>>)
    ELSE IF StartsWith(expected, P_VALUE_GT)
    THEN LET text == AfterColon(expected)
         IN  IF ~FloatParses(text)
             THEN Returns(<<Discrepancy("invalid_value_gt", path)>>)
             ELSE IF ~(IsIntOrFloat(received_obj) /\ NumberOf(received_obj) > DigitsValue(text))
             THEN Returns(<<Discrepancy("value_gt", path)>>)
             ELSE Returns(<<>>)
    ELSE IF StartsWith(expected, P_VALUE_GTE)
    THEN LET text == AfterColon(expected)
         IN  IF ~FloatParses(text)
             THEN Returns(<<Discrepancy("invalid_value_gte", path)>>)
             ELSE IF ~(IsIntOrFloat(received_obj) /\ NumberOf(received_obj) >= DigitsValue(text))
             THEN Returns(<<Discrepancy("value_gte", path)>>)
             ELSE Returns(<<>>)
    ELSE IF StartsWith(expected, P_CHOICE)
    THEN Returns(<<Discrepancy("choice", path)>>)
    ELSE IF ~PyEq(received_obj, JString(expected))
    THEN Returns(<<Discrepancy("value_mismatch", path)>>)
    ELSE Returns(<<>>)

RECURSIVE CompareJsonStructures(_, _, _)
RECURSIVE CompareMembers(_, _, _, _)
RECURSIVE CompareItems(_, _, _, _)

\* an Extra key entry for every received key the expected object does not have
ExtraKeysReported(received_obj, expected_obj, path) ==
    LET Extra(entry) == ~DictHas(expected_obj, entry.k)
        extras == SelectSeq(received_obj.m, Extra)
    IN  [i \in 1..Len(extras) |-> Discrepancy("extra_key", KeyPath(path, extras[i].k))]

\* lines 29-32: the check for extra keys is commented out, nothing is reported
ExtraKeys(received_obj, expected_obj, path) == <<>>

\* the loop over expected_obj.items() from its i-th entry on (lines 15-27), then
\* lines 29-32
CompareMembers(received_obj, expected_obj, path, i) ==
    IF i > Len(expected_obj.m) THEN Returns(ExtraKeys(received_obj, expected_obj, path))
    ELSE LET key == expected_obj.m[i].k
             exp_val == expected_obj.m[i].v
             current_path == KeyPath(path, key)
             this == IF ~DictHas(received_obj, key)
                     THEN IF MissingAllowed(exp_val)
                          THEN Returns(<<>>)
                          ELSE Returns(<<Discrepancy("missing_key", current_path)>>)
                     ELSE CompareJsonStructures(DictGet(received_obj, key, JNone),
                                                exp_val, current_path)
         IN  IF this.raised THEN Raises
             ELSE LET rest == CompareMembers(received_obj, expected_obj, path, i + 1)
                  IN  IF rest.raised THEN Raises ELSE Returns(this.d \o rest.d)

\* the lengths are never compared: zip stops at the shorter array
ArrayLengthMismatchNever(received_obj, expected_obj) == FALSE

\* len(received_obj) != len(expected_obj) (line 38)
ArrayLengthMismatch(received_obj, expected_obj) == Len(received_obj.m) # Len(expected_obj.m)

\* the loop over zip(received_obj, expected_obj) from index i (0-based) on (lines 41-42)
CompareItems(received_obj, expected_obj, path, i) ==
    IF i >= Len(received_obj.m) \/ i >= Len(expected_obj.m) THEN Returns(<<>>)
    ELSE LET this == CompareJsonStructures(received_obj.m[i + 1], expected_obj.m[i + 1],
                                           ItemPath(path, i))
         IN  IF this.raised THEN Raises
             ELSE LET rest == CompareItems(received_obj, expected_obj, path, i + 1)
                  IN  IF rest.raised THEN Raises ELSE Returns(this.d \o rest.d)

\* compare_json_structures(received_obj, expected_obj, path)
CompareJsonStructures(received_obj, expected_obj, path) ==
    IF expected_obj.t = "object" /\ received_obj.t = "object"
    THEN CompareMembers(received_obj, expected_obj, path, 1)
    ELSE IF expected_obj.t = "array" /\ received_obj.t = "array"
    THEN IF ArrayLengthMismatch(received_obj, expected_obj)
         THEN Returns(<<Discrepancy("array_length", path)>>)
         ELSE CompareItems(received_obj, expected_obj, path, 0)
    ELSE IF expected_obj.t = "string"
    THEN CompareValidator(received_obj, expected_obj.s, path)
    ELSE IF expected_obj.t = "object" /\ DictHas(expected_obj, K_comment)
    THEN IF received_obj.t # "object"
         THEN Returns(<<Discrepancy("complex_type_mismatch", path)>>)
         ELSE Returns(<<>>)
    ELSE IF ~PyEq(received_obj, expected_obj)
    THEN Returns(<<Discrepancy("value_mismatch", path)>>)
    ELSE Returns(<<>>)

-----------------------------------------------------------------------------
(* check_output.  An entry of results_log is [kind, exp, rec, passed, d]:  *)
(* "compare" entries are the log_line of one loop iteration with the two   *)
(* cursors it names and its outcome, "discrepancy" entries carry the       *)
(* discrepancy d they print; the other kinds are the fixed messages.       *)

NoDiscrepancy == Discrepancy("none", <<>>)

LogEntry(kind, exp, rec, passed, d) ==
    [kind |-> kind, exp |-> exp, rec |-> rec, passed |-> passed, d |-> d]

Message(kind) == LogEntry(kind, 0, 0, kind \notin {"fail", "missed"}, NoDiscrepancy)

\* the entries that print the discrepancies of a comparison (lines 160-162)
DiscrepancyEntries(ds) ==
    [i \in 1..Len(ds) |-> LogEntry("discrepancy", 0, 0, FALSE, ds[i])]

\* the test of the line types (lines 187-194): only exact_line is implemented
LineMatches(exp_item, curr_rec_line) ==
    /\ PyEq(DictGet(exp_item, K_type, JNone), JString(S_exact_line))
    /\ PyEq(curr_rec_line, DictGet(exp_item, K_value, JNone))

\* the expected cursor after a comparison, mutated: lock step
NextExpectedIdxLockStep(match, idx) == idx + 1

\* the expected cursor after a comparison (lines 196-203)
NextExpectedIdx(match, idx) == IF match THEN idx + 1 ELSE idx

\* overall_pass after a comparison, mutated: the last outcome wins
NextReceivedIdxOnPass(match, idx) == IF match THEN idx + 1 ELSE idx

\* lines 199 and 203: the received cursor after one comparison
NextReceivedIdx(match, idx) == idx + 1

NextOverallPassLast(match, pass) == match

\* overall_pass after a comparison (lines 196-203)
NextOverallPass(match, pass) == IF match THEN pass ELSE FALSE

\* the test after the loop, mutated: never
NotAllMatchedNever(exp_idx, num_expected, rec_idx, num_received) == FALSE

\* the test after the loop, mutated: unconsumed received lines count too
NotAllMatchedOrExtra(exp_idx, num_expected, rec_idx, num_received) ==
    exp_idx < num_expected \/ rec_idx < num_received

\* the test after the loop (line 206)
NotAllMatched(exp_idx, num_expected, rec_idx, num_received) == exp_idx < num_expected

\* the skip test, mutated: an empty list is skipped too
NoExpectationsOrEmpty(definition) == definition = JNone \/ definition = JArray(<<>>)

\* expected_responses_definition is None (line 142)
NoExpectations(definition) == definition = JNone

\* the while condition (line 181)
LineLoopCond(exp_idx, num_expected, rec_idx, num_received) ==
    exp_idx < num_expected /\ rec_idx < num_received

\* return with the printed summary (lines 213-218)
CheckReturn(c, pass) ==
    [c EXCEPT !.summary = IF pass THEN "PASSED" ELSE "FAILED",
              !.check_ret = IF pass THEN "True" ELSE "False",
              !.check_pc = "done"]

\* the early return with the SKIPPED summary (lines 124-126 and 143-144)
CheckSkipped(c) ==
    [c EXCEPT !.summary = "SKIPPED", !.check_ret = "True", !.check_pc = "done"]

\* a FAIL entry for data or a mode the matcher cannot use (lines 151-154, 168-169, 210-211)
CheckUnusable(c) ==
    [c EXCEPT !.results_log = Append(@, Message("fail")),
              !.overall_pass = FALSE,
              !.check_pc = "report"]

\* lines 123-147: the path, the document, its two entries
CheckCall ==
    /\ check_pc = "call"
    /\ checker' =
           IF ~Truthy(expected_json_path) THEN CheckSkipped(checker)
           ELSE IF expected_file.kind # "document"
           THEN [checker EXCEPT !.check_ret = "False", !.check_pc = "done"]
           ELSE LET definition == DictGet(expected_file.config, K_expected_responses, JNone)
                    loaded == [checker EXCEPT
                                  !.reception_mode = DictGet(expected_file.config,
                                                             K_reception_mode, JString(S_lines)),
                                  !.expected_responses_definition = definition]
                IN  IF NoExpectations(definition) THEN CheckSkipped(loaded)
                    ELSE [loaded EXCEPT !.overall_pass = TRUE,
                                        !.results_log = <<>>,
                                        !.check_pc = "dispatch"]
    /\ UNCHANGED <<receiver_vars, harness_vars>>

\* lines 149-179 and 209-211: the branch of the reception mode, up to the line loop
CheckDispatch ==
    /\ check_pc = "dispatch"
    /\ checker' =
           IF PyEq(reception_mode, JString(S_json_object))
           THEN IF received_data.t # "object" THEN CheckUnusable(checker)
                ELSE LET r == CompareJsonStructures(received_data,
                                                    expected_responses_definition, RootPath)
                     IN  IF r.raised
                         THEN [checker EXCEPT
                                  !.results_log = Append(@, Message("mode_json")),
                                  !.check_ret = "raised",
                                  !.check_pc = "raised"]
                         ELSE IF Len(r.d) > 0
                         THEN [checker EXCEPT
                                  !.results_log = @ \o <<Message("mode_json"),
                                                        Message("discrepancies_found")>>
                                                    \o DiscrepancyEntries(r.d),
                                  !.overall_pass = FALSE,
                                  !.check_pc = "report"]
                         ELSE [checker EXCEPT
                                  !.results_log = @ \o <<Message("mode_json"),
                                                        Message("matches")>>,
                                  !.check_pc = "report"]
           ELSE IF PyEq(reception_mode, JString(S_lines))
           THEN IF received_data.t # "array" THEN CheckUnusable(checker)
                ELSE [checker EXCEPT !.results_log = Append(@, Message("mode_lines")),
                                     !.expected_idx = 0,
                                     !.received_idx = 0,
                                     !.check_pc = "loop"]
           ELSE CheckUnusable(checker)
    /\ UNCHANGED <<receiver_vars, harness_vars>>

\* lines 181-204: one iteration of the line loop
CheckLine ==
    /\ check_pc = "loop"
    /\ LineLoopCond(expected_idx, Len(expected_responses_definition.m),
                    received_idx, Len(received_data.m))
    /\ LET exp_item == expected_responses_definition.m[expected_idx + 1]
           curr_rec_line == received_data.m[received_idx + 1]
           match == LineMatches(exp_item, curr_rec_line)
       IN  checker' = [checker EXCEPT
               !.expected_idx = NextExpectedIdx(match, @),
               !.received_idx = NextReceivedIdx(match, @),
               !.overall_pass = NextOverallPass(match, @),
               !.results_log = Append(@, LogEntry("compare", expected_idx, received_idx,
                                                 match, NoDiscrepancy))]
    /\ UNCHANGED <<receiver_vars, harness_vars>>

\* lines 206-218: the test after the loop, the printed log, the verdict
CheckReport ==
    /\ \/ check_pc = "report"
       \/ /\ check_pc = "loop"
          /\ ~LineLoopCond(expected_idx, Len(expected_responses_definition.m),
                           received_idx, Len(received_data.m))
    /\ checker' =
           IF /\ check_pc = "loop"
              /\ NotAllMatched(expected_idx, Len(expected_responses_definition.m),
                               received_idx, Len(received_data.m))
           THEN CheckReturn([checker EXCEPT !.results_log = Append(@, Message("missed")),
                                            !.overall_pass = FALSE],
                            FALSE)
           ELSE CheckReturn(checker, overall_pass)
    /\ UNCHANGED <<receiver_vars, harness_vars>>

-----------------------------------------------------------------------------
(* The inputs of check_output *)

\* longest list of expected line items tried
MaxExpected == 2

\* longest list of received lines tried
MaxReceived == 3

\* longest array tried by the structural matcher
MaxArray == 2

SeqsUpTo(S, n) == UNION {[1..k -> S] : k \in 0..n}

Str(chars) == JString(chars)

\* {"type": type, key: val}
LineItem(type, key, val) ==
    JObject(<<[k |-> K_type, v |-> Str(type)], [k |-> key, v |-> val]>>)

ExactLine(chars) == LineItem(S_exact_line, K_value, Str(chars))

ContainsString(chars) == LineItem(S_contains_string, K_value, Str(chars))

RegexMatch(chars) == LineItem(S_regex_match, K_pattern, Str(chars))

IgnoreLineCount(digits) == LineItem(S_ignore_line_count, K_count, JNumber(digits))

\* the received lines
LineValues == {Str(<<"A">>), Str(<<"A", "B">>)}

\* the expected line items
LineItems ==
    {ExactLine(<<"A">>), ExactLine(<<"A", "B">>), ContainsString(<<"B">>),
     RegexMatch(<<"A", ".">>), RegexMatch(<<"(">>), IgnoreLineCount(<<"2">>)}

\* an expectation document: {"reception_mode": rmode, "expected_responses": responses}
Config(rmode, responses) ==
    JObject(<<[k |-> K_reception_mode, v |-> Str(rmode)],
              [k |-> K_expected_responses, v |-> responses]>>)

Document(config) == [kind |-> "document", config |-> config]

\* the path names no file
AbsentFile == [kind |-> "absent", config |-> JNone]

\* the file is not JSON
MalformedFile == [kind |-> "malformed", config |-> JNone]

\* documents without "expected_responses", with null for it, and without "reception_mode"
OddDocuments ==
    {Document(JObject(<<[k |-> K_reception_mode, v |-> Str(S_lines)]>>)),
     Document(Config(S_lines, JNone)),
     Document(JObject(<<[k |-> K_expected_responses, v |-> JArray(<<ExactLine(<<"A">>)>>)]>>)),
     Document(Config(<<"r", "a", "w">>, JArray(<<>>)))}

LineDocuments == {Document(Config(S_lines, JArray(items))) : items \in SeqsUpTo(LineItems, MaxExpected)}

LineReceived == {JArray(ls) : ls \in SeqsUpTo(LineValues, MaxReceived)}

\* the error value of receive_data
ErrorValue(chars) ==
    JObject(<<[k |-> K_error, v |-> Str(<<"i", "n", "v">>)], [k |-> K_buffer, v |-> Str(chars)]>>)

KeyA == <<"a">>

KeyB == <<"b">>

One == JNumber(<<"1">>)

Two == JNumber(<<"2">>)

\* {"$optional": flag, "a": 1}
OptionalObject(flag) ==
    JObject(<<[k |-> K_optional, v |-> JBool(flag)], [k |-> KeyA, v |-> One]>>)

\* the objects with keys among "a" and "b" and values in V
ObjectsOver(V) ==
    {JObject(<<>>)}
    \cup {JObject(<<[k |-> key, v |-> x]>>) : key \in {KeyA, KeyB}, x \in V}
    \cup {JObject(<<[k |-> KeyA, v |-> x], [k |-> KeyB, v |-> y]>>) : x \in V, y \in V}

\* the values of an expected object
ExpectedValues ==
    {One, Str(<<"x">>), Str(S_ANY), Str(S_ANY_OR_MISSING), Str(P_TYPE \o T_number),
     Str(P_REGEX \o <<"(">>), Str(P_VALUE_GT \o <<"1">>), OptionalObject(TRUE),
     OptionalObject(FALSE), JArray(<<One, Two>>)}

\* the values of a received object
ReceivedValues ==
    {One, Two, Str(<<"x">>), JBool(TRUE), JNone, JObject(<<[k |-> KeyA, v |-> One]>>),
     JArray(<<Two, One>>)}

\* the items of the arrays compared
ArrayItems == {One, Two, JBool(TRUE), Str(<<"x">>), Str(S_ANY), Str(P_TYPE \o T_string)}

Arrays == {JArray(items) : items \in SeqsUpTo(ArrayItems, MaxArray)}

\* {"a": v}
Holding(v) == JObject(<<[k |-> KeyA, v |-> v]>>)

JsonDocument(responses) == Document(Config(S_json_object, responses))

\* the validators the comment at line 73 leaves to be implemented
P_VALUE_LT == <<"V", "A", "L", "U", "E", "_", "L", "T", ":">>

P_VALUE_LTE == <<"V", "A", "L", "U", "E", "_", "L", "T", "E", ":">>

\* the validator strings tried on one value: every type name and an unknown one, the
\* numeric bounds with a number and with a word, a pattern that compiles and one that
\* does not
Validators ==
    {Str(P_TYPE \o n) : n \in TypeNames \cup {<<"i", "n", "t">>}}
    \cup {Str(p \o n) : p \in {P_VALUE_GT, P_VALUE_GTE, P_VALUE_LT, P_VALUE_LTE},
                        n \in {<<"1">>, <<"x">>}}
    \cup {Str(P_REGEX \o <<"x">>), Str(P_REGEX \o <<"(">>)}

\* received values of every kind
KindSamples ==
    {JNumber(<<"0">>), One, Two, Str(<<"x">>), Str(<<"2", "3", ".", "5">>),
     Str(P_VALUE_LT \o <<"1">>), JBool(TRUE), JBool(FALSE), JNone, JArray(<<>>),
     JObject(<<>>)}

\* the pairs of an expectation file and a received value the matcher is run on
\* expected and received values with objects below the top level
NestedExpected ==
    {JObject(<<>>), JObject(<<[k |-> KeyA, v |-> One]>>),
     JArray(<<JObject(<<[k |-> KeyA, v |-> One]>>)>>)}

NestedReceived ==
    {JObject(<<[k |-> KeyA, v |-> One]>>),
     JObject(<<[k |-> KeyA, v |-> One], [k |-> KeyB, v |-> Two]>>),
     JObject(<<[k |-> KeyB, v |-> Two]>>),
     JArray(<<JObject(<<[k |-> KeyA, v |-> One], [k |-> KeyB, v |-> Two]>>)>>),
     JArray(<<JObject(<<[k |-> KeyB, v |-> Two]>>)>>)}

CheckInputs ==
    (LineDocuments \X (LineReceived \cup {ErrorValue(<<"{">>)}))
    \cup ({JsonDocument(e) : e \in ObjectsOver(ExpectedValues)}
          \X (ObjectsOver(ReceivedValues) \cup {JArray(<<>>), ErrorValue(<<"{">>)}))
    \cup ({JsonDocument(Holding(e)) : e \in Arrays} \X {Holding(r) : r \in Arrays})
    \cup ({JsonDocument(Holding(e)) : e \in Validators} \X {Holding(r) : r \in KindSamples})
    \cup ({JsonDocument(Holding(e)) : e \in NestedExpected}
          \X {Holding(r) : r \in NestedReceived})
    \cup (({AbsentFile, MalformedFile} \cup OddDocuments)
          \X {JArray(<<>>), JArray(<<Str(<<"A">>)>>), Holding(One)})

\* receive_data is not running
ReceiverAtRest ==
    /\ mode = "lines"
    /\ overall_timeout_s = 0
    /\ idle_timeout_s = 0
    /\ stop_condition_line = <<>>
    /\ stream = <<>>
    /\ is_open = FALSE
    /\ in_waiting = <<>>
    /\ now = 0
    /\ start_time = 0
    /\ last_data_time = 0
    /\ sleep_left = 0
    /\ buffer = <<>>
    /\ lines_received = <<>>
    /\ pc = "rest"
    /\ end_cause = "none"
    /\ outcome = "none"
    /\ ret_lines = <<>>
    /\ ret_text = <<>>
    /\ ret_doc = JNone
    /\ rx_bytes = <<>>
    /\ rx = <<>>
    /\ last_arrival = 0
    /\ spaced = TRUE

\* a call of check_output on any of the inputs, with and without a path
CheckInit ==
    /\ \E in \in CheckInputs, path \in {<<>>, <<"p">>} :
           checker = [received_data |-> in[2],
                      expected_json_path |-> path,
                      expected_file |-> in[1],
                      reception_mode |-> JNone,
                      expected_responses_definition |-> JNone,
                      expected_idx |-> 0,
                      received_idx |-> 0,
                      overall_pass |-> TRUE,
                      results_log |-> <<>>,
                      summary |-> "none",
                      check_pc |-> "call",
                      check_ret |-> "none"]
    /\ ReceiverAtRest
    /\ HarnessAtRest

CheckNext == CheckCall \/ CheckDispatch \/ CheckLine \/ CheckReport

CheckSpec == CheckInit /\ [][CheckNext]_vars

\* the calls in mode lines on a list of lines
LineInit ==
    /\ CheckInit
    /\ checker.expected_file \in LineDocuments
    /\ checker.received_data \in LineReceived

LineSpec == LineInit /\ [][CheckNext]_vars

\* the call is not stopped from outside: every step that can be taken is taken
FairLineSpec == LineSpec /\ WF_vars(CheckNext)

-----------------------------------------------------------------------------
(* What the claims about the line matcher speak of *)

\* the call went into the line loop
LinesRun == Len(results_log) > 0 /\ results_log[1].kind = "mode_lines"

\* the expectation and the received line at the cursors
CurrentItem == expected_responses_definition.m[expected_idx + 1]

CurrentLine == received_data.m[received_idx + 1]

\* the kind of an expected line item
ItemKind(item) == DictGet(item, K_type, JNone).s

\* this step is one comparison of the line loop
LineStep == check_pc = "loop" /\ results_log' # results_log /\ check_pc' = "loop"

\* the entry the step has logged
LoggedEntry == results_log'[Len(results_log')]

\* the cursor policy: both cursors advance on pass, only the received cursor on fail
CursorPolicy(passes) ==
    /\ received_idx' = received_idx + 1
    /\ expected_idx' = IF passes THEN expected_idx + 1 ELSE expected_idx
    /\ LoggedEntry = LogEntry("compare", expected_idx, received_idx, passes, NoDiscrepancy)

\* sub occurs in text
IsSubstring(sub, text) ==
    \E o \in 0..(Len(text) - Len(sub)) : SubSeq(text, o + 1, o + Len(sub)) = sub

\* the comparison entries of the log, in order
RECURSIVE Comparisons(_)
Comparisons(log) ==
    IF Len(log) = 0 THEN <<>>
    ELSE IF Head(log).kind = "compare" THEN <<Head(log)>> \o Comparisons(Tail(log))
    ELSE Comparisons(Tail(log))

\* C11: an exact_line expectation passes iff the received line at the cursor equals its
\* value; on pass both cursors advance, on fail a failure is logged and only the received
\* cursor advances, so the same expectation meets the next received line
C11_ExactLineCursors ==
    [][(LineStep /\ ItemKind(CurrentItem) = S_exact_line)
        => /\ CursorPolicy(CurrentLine = DictGet(CurrentItem, K_value, JNone))
           /\ (CurrentLine # DictGet(CurrentItem, K_value, JNone) => ~overall_pass')]_vars

\* an exact_line expectation has failed on one line and passed on the next
C11_Witness ==
    /\ check_pc = "loop"
    /\ \E i \in 1..(Len(results_log) - 1) :
           /\ results_log[i].kind = "compare" /\ ~results_log[i].passed
           /\ results_log[i + 1].kind = "compare" /\ results_log[i + 1].passed
           /\ results_log[i + 1].exp = results_log[i].exp
           /\ results_log[i + 1].rec = results_log[i].rec + 1
           /\ ItemKind(expected_responses_definition.m[results_log[i].exp + 1]) = S_exact_line

\* C12 (as claimed): a contains_string expectation passes iff its value is a substring of
\* the received line at the cursor, with the cursor policy of exact_line
C12_ContainsString ==
    [][(LineStep /\ ItemKind(CurrentItem) = S_contains_string)
        => CursorPolicy(IsSubstring(DictGet(CurrentItem, K_value, JNone).s, CurrentLine.s))]_vars

\* the received lines and the expectations have one length, and every expectation, exact
\* or regex, matches the received line of its index
AllMatchInPlace ==
    /\ Len(expected_responses_definition.m) = Len(received_data.m)
    /\ \A i \in 1..Len(received_data.m) :
           LET item == expected_responses_definition.m[i]
               line == received_data.m[i]
           IN  \/ /\ ItemKind(item) = S_exact_line
                  /\ line = DictGet(item, K_value, JNone)
               \/ /\ ItemKind(item) = S_regex_match
                  /\ RegexCompiles(DictGet(item, K_pattern, JNone).s)
                  /\ RegexSearch(DictGet(item, K_pattern, JNone).s, line.s)

\* C13 (as claimed): n expectations, exact or regex, that each match the received line of
\* the same index give the verdict pass and a trace of exactly n comparisons
C13_RegexMatch ==
    (check_pc = "done" /\ LinesRun /\ AllMatchInPlace)
        => /\ check_ret = "True"
           /\ Len(Comparisons(results_log)) = Len(received_data.m)

\* C14 (as claimed): an ignore_line_count expectation with enough received lines left
\* consumes exactly count of them and passes, advancing the expected cursor by one, and
\* the received cursor never passes the end of the received lines
C14_IgnoreCount ==
    [][(LineStep /\ ItemKind(CurrentItem) = S_ignore_line_count
          /\ received_idx + DigitsValue(DictGet(CurrentItem, K_count, JNone).s)
                 <= Len(received_data.m))
        => /\ received_idx' = received_idx + DigitsValue(DictGet(CurrentItem, K_count, JNone).s)
           /\ expected_idx' = expected_idx + 1
           /\ overall_pass' = overall_pass
           /\ received_idx' <= Len(received_data.m)]_vars

\* C15: when the received lines run out before every expected item has passed, also with
\* no received line at all, the missed expectations are reported and the verdict is fail
C15_MissedExpectations ==
    (check_pc = "done" /\ LinesRun /\ expected_idx < Len(expected_responses_definition.m))
        => /\ received_idx = Len(received_data.m)
           /\ check_ret = "False"
           /\ summary = "FAILED"
           /\ results_log[Len(results_log)] = Message("missed")

\* no line was received, an expectation is left and the verdict is fail
C15_Witness ==
    /\ check_pc = "done"
    /\ LinesRun
    /\ Len(received_data.m) = 0
    /\ Len(expected_responses_definition.m) > 0
    /\ check_ret = "False"

\* every expectation passed on its first comparison and received lines are left over
PassedWithExtras ==
    /\ check_pc = "done"
    /\ LinesRun
    /\ expected_idx = Len(expected_responses_definition.m)
    /\ received_idx = expected_idx
    /\ received_idx < Len(received_data.m)

\* C16 (as claimed): received lines left over after every expectation passed on its first
\* comparison keep the verdict pass and are reported as a warning in the trace
C16_ExtrasWarned ==
    PassedWithExtras
        => /\ check_ret = "True"
           /\ \E i \in 1..Len(results_log) : results_log[i].kind = "warning"

\* C17: the verdict is the conjunction of all logged outcomes and the matcher never stops
\* at the first failure: the line loop goes on until a cursor runs out, logging one
\* comparison per received line consumed, in order
C17_VerdictIsConjunction ==
    (check_pc = "done" /\ summary \in {"PASSED", "FAILED"})
        => /\ (check_ret = "True") = (\A i \in 1..Len(results_log) : results_log[i].passed)
           /\ LinesRun =>
                  /\ \/ received_idx = Len(received_data.m)
                     \/ expected_idx = Len(expected_responses_definition.m)
                  /\ Len(Comparisons(results_log)) = received_idx
                  /\ \A i \in 1..received_idx : Comparisons(results_log)[i].rec = i - 1

\* a comparison failed, the same expectation matched the next received line, every later
\* expectation passed, and the verdict is fail
C17_Witness ==
    /\ check_pc = "done"
    /\ LinesRun
    /\ expected_idx = Len(expected_responses_definition.m)
    /\ check_ret = "False"
    /\ \E i \in 1..(Len(results_log) - 1) :
           /\ results_log[i].kind = "compare" /\ ~results_log[i].passed
           /\ results_log[i + 1].kind = "compare" /\ results_log[i + 1].passed
           /\ results_log[i + 1].exp = results_log[i].exp

\* the document of the file has no expected_responses entry (null counts as none)
NoResponsesEntry ==
    /\ expected_file.kind = "document"
    /\ \/ ~DictHas(expected_file.config, K_expected_responses)
       \/ \E i \in 1..Len(expected_file.config.m) :
              /\ expected_file.config.m[i].k = K_expected_responses
              /\ expected_file.config.m[i].v.t = "none"

-----------------------------------------------------------------------------
(* What the claims about the structural matcher speak of *)

\* the call compared a received object with the expected structure
JsonRun ==
    /\ check_pc \in {"report", "done"}
    /\ Len(results_log) > 0
    /\ results_log[1].kind = "mode_json"

\* the discrepancies the comparison returned, in order
RECURSIVE Logged(_)
Logged(log) ==
    IF Len(log) = 0 THEN <<>>
    ELSE IF Head(log).kind = "discrepancy" THEN <<Head(log).d>> \o Logged(Tail(log))
    ELSE Logged(Tail(log))

\* the expected value is "ANY_OR_MISSING" or an object marked optional
AbsenceAccepted(v) ==
    \/ v = Str(S_ANY_OR_MISSING)
    \/ /\ v.t = "object"
       /\ \E i \in 1..Len(v.m) : v.m[i].k = K_optional /\ v.m[i].v = JBool(TRUE)

\* C19: a key of the expected object that the received object lacks gives no discrepancy
\* iff its expected value is "ANY_OR_MISSING" or an object marked optional, and otherwise
\* exactly one missing-key discrepancy at root.<key>
C19_MissingKeys ==
    (JsonRun /\ expected_responses_definition.t = "object")
        => \A i \in 1..Len(expected_responses_definition.m) :
               LET key == expected_responses_definition.m[i].k
                   at == {j \in 1..Len(Logged(results_log)) :
                              Logged(results_log)[j].path = RootPath \o <<".">> \o key}
               IN  (\A n \in 1..Len(received_data.m) : received_data.m[n].k # key)
                       => IF AbsenceAccepted(expected_responses_definition.m[i].v)
                          THEN at = {}
                          ELSE /\ Cardinality(at) = 1
                               /\ \A j \in at : Logged(results_log)[j].kind = "missing_key"

\* expected {"a": 1, "b": "ANY_OR_MISSING"} against received {"a": 1} passes
C19_Witness ==
    /\ check_pc = "done"
    /\ expected_responses_definition =
           JObject(<<[k |-> KeyA, v |-> One], [k |-> KeyB, v |-> Str(S_ANY_OR_MISSING)]>>)
    /\ received_data = JObject(<<[k |-> KeyA, v |-> One]>>)
    /\ check_ret = "True"

\* the call compared two arrays, the values of "a"
ArrayRun ==
    /\ JsonRun
    /\ expected_responses_definition \in {Holding(e) : e \in Arrays}
    /\ received_data \in {Holding(r) : r \in Arrays}

ExpectedArray == expected_responses_definition.m[1].v.m

ReceivedArray == received_data.m[1].v.m

ArrayPath == RootPath \o <<".">> \o KeyA

\* the discrepancies of item i against item i for the items from index i (0-based) on
RECURSIVE Pairwise(_)
Pairwise(i) ==
    IF i >= Len(ExpectedArray) THEN <<>>
    ELSE CompareJsonStructures(ReceivedArray[i + 1], ExpectedArray[i + 1],
                               ArrayPath \o <<"[", IndexChar(i), "]">>).d
         \o Pairwise(i + 1)

\* r holds the items of e in another order
IsPermutation(r, e) ==
    /\ Len(r) = Len(e)
    /\ r # e
    /\ \E f \in [1..Len(e) -> 1..Len(e)] :
           /\ \A i, j \in 1..Len(e) : f[i] = f[j] => i = j
           /\ \A i \in 1..Len(e) : r[i] = e[f[i]]

\* the result for two arrays: one length mismatch and nothing else, or the pairwise
\* discrepancies in index order
ArrayResult ==
    IF Len(ReceivedArray) # Len(ExpectedArray)
    THEN Logged(results_log) = <<Discrepancy("array_length", ArrayPath)>>
    ELSE Logged(results_log) = Pairwise(0)

IsValidator(chars) ==
    \/ chars \in {S_ANY, S_ANY_OR_MISSING}
    \/ \E p \in {P_TYPE, P_REGEX, P_VALUE_GT, P_VALUE_GTE, P_CHOICE} : StartsWith(chars, p)

\* the items are literal scalars, no two of them equal in Python (where True == 1)
DistinctLiterals(items) ==
    /\ \A i \in 1..Len(items) :
           /\ items[i].t \in {"number", "boolean", "none", "string"}
           /\ items[i].t = "string" => ~IsValidator(items[i].s)
    /\ \A i, j \in 1..Len(items) : PyEq(items[i], items[j]) => i = j

-----------------------------------------------------------------------------
(* What the claims about the validator strings speak of *)

\* the call compared {"a": value} with {"a": validator} and came to an end
ValidatorRun ==
    /\ check_pc \in {"report", "done", "raised"}
    /\ expected_responses_definition \in {Holding(e) : e \in Validators}
    /\ received_data \in {Holding(r) : r \in KindSamples}

ExpectedValidator == expected_responses_definition.m[1].v.s

ReceivedValue == received_data.m[1].v

ValuePath == KeyPath(RootPath, KeyA)

\* the JSON kind of a value, by the names the TYPE validator uses
KindName(v) ==
    CASE v.t = "string" -> T_string
      [] v.t = "number" -> T_number
      [] v.t = "boolean" -> T_boolean
      [] v.t = "array" -> T_array
      [] v.t = "object" -> T_object
      [] v.t = "none" -> T_null

\* the comparison returned exactly one discrepancy, at root.a
OneAtValuePath ==
    /\ Len(Logged(results_log)) = 1
    /\ Logged(results_log)[1].path = ValuePath

\* C21 (as claimed): TYPE:<name>, for the six type names, gives no discrepancy iff the
\* kind of the received value is exactly <name>, and exactly one discrepancy at the path
\* otherwise; a boolean against TYPE:number is a discrepancy
C21_TypeValidator ==
    \A n \in TypeNames :
        (ValidatorRun /\ ExpectedValidator = P_TYPE \o n)
            => /\ JsonRun
               /\ IF KindName(ReceivedValue) = n THEN Logged(results_log) = <<>>
                  ELSE OneAtValuePath

\* C22 (as claimed): VALUE_GT:<n> gives no discrepancy iff the received value is a number
\* greater than n, VALUE_GTE:<n> iff it is a number not below n; a received string,
\* boolean, null, array or object always gives a discrepancy; an <n> that is no number
\* gives a discrepancy and no exception
C22_NumericBounds ==
    \A p \in {P_VALUE_GT, P_VALUE_GTE} :
        (ValidatorRun /\ StartsWith(ExpectedValidator, p))
            => /\ JsonRun
               /\ IF ~FloatParses(AfterColon(ExpectedValidator)) THEN OneAtValuePath
                  ELSE IF /\ ReceivedValue.t = "number"
                          /\ IF p = P_VALUE_GT
                             THEN DigitsValue(ReceivedValue.s)
                                      > DigitsValue(AfterColon(ExpectedValidator))
                             ELSE DigitsValue(ReceivedValue.s)
                                      >= DigitsValue(AfterColon(ExpectedValidator))
                  THEN Logged(results_log) = <<>>
                  ELSE OneAtValuePath

\* C23 (as claimed): VALUE_LT:<n> and VALUE_LTE:<n> are numeric assertions symmetric to
\* VALUE_GT and VALUE_GTE, not literal strings: no discrepancy iff the received value is
\* a number below n, or not above n
C23_LessThanBounds ==
    \A p \in {P_VALUE_LT, P_VALUE_LTE} :
        (ValidatorRun /\ StartsWith(ExpectedValidator, p)
           /\ FloatParses(AfterColon(ExpectedValidator)))
            => /\ JsonRun
               /\ IF /\ ReceivedValue.t = "number"
                     /\ IF p = P_VALUE_LT
                        THEN DigitsValue(ReceivedValue.s)
                                 < DigitsValue(AfterColon(ExpectedValidator))
                        ELSE DigitsValue(ReceivedValue.s)
                                 <= DigitsValue(AfterColon(ExpectedValidator))
                  THEN Logged(results_log) = <<>>
                  ELSE OneAtValuePath

\* the expected object asks, at some key, for a pattern that does not compile, and the
\* received object has a string there
MalformedPatternAt(key) ==
    /\ DictGet(expected_responses_definition, key, JNone).t = "string"
    /\ StartsWith(DictGet(expected_responses_definition, key, JNone).s, P_REGEX)
    /\ ~RegexCompiles(AfterColon(DictGet(expected_responses_definition, key, JNone).s))
    /\ DictGet(received_data, key, JNone).t = "string"

\* C24 (as claimed): a pattern that does not compile is a discrepancy at its path; the
\* comparison and check_output return normally, with the verdict fail, and the rest of the
\* document is still compared; no exception escapes
C24_MalformedRegex ==
    \A key \in {KeyA, KeyB} :
        (/\ check_pc \in {"report", "done", "raised"}
         /\ Len(results_log) > 0
         /\ results_log[1].kind = "mode_json"
         /\ expected_responses_definition.t = "object"
         /\ MalformedPatternAt(key))
            => /\ check_pc # "raised"
               /\ \E j \in 1..Len(Logged(results_log)) :
                      Logged(results_log)[j].path = KeyPath(RootPath, key)
               /\ check_pc = "done" => check_ret = "False"
               /\ \A other \in {KeyA, KeyB} \ {key} :
                      (/\ DictGet(expected_responses_definition, other, JNone) = One
                       /\ DictGet(received_data, other, JNone) = Two)
                          => \E j \in 1..Len(Logged(results_log)) :
                                 Logged(results_log)[j].path = KeyPath(RootPath, other)

-----------------------------------------------------------------------------
(* GPIOController over MockGPIO (src/gpio_controller.py).  All of it is kept in
   the record gpio: pin_configs is the controller's dictionary, pin_setups the
   mock's, raised the exception the last call has left with ("none" if it
   returned), writes the number of values the last call has written to the mock and
   levels these values in order.
   Strings are model strings, None is NoneStr, a JSON value that is no string
   is NotStr. *)

\* greatest pin number _validate_pin accepts (line 134)
MaxPinNumber == 40

\* MockGPIO.HIGH and MockGPIO.LOW (lines 19-20)
HIGH == 1

LOW == 0

\* MockGPIO.OUT, MockGPIO.IN, MockGPIO.PUD_UP, MockGPIO.PUD_DOWN (lines 17-22)
GPIO_OUT == "OUTPUT_MODE"

GPIO_IN == "INPUT_MODE"

PUD_UP == "PUD_UP"

PUD_DOWN == "PUD_DOWN"

\* None, for a string argument and for a level
NoneStr == "<None>"

NoLevel == -1

\* None, for a pin
NoPin == -1

\* a value that is not a string (a JSON number)
NotStr == "<number>"

\* greatest pin the model keeps state for
MaxPins == 2

Pins == 1..MaxPins

\* a key the dictionaries do not hold
Unset == "<unset>"

\* str.lower() on the strings used
Lower(s) ==
    CASE s = "OUTPUT" -> "output"
      [] s = "INPUT" -> "input"
      [] s = "HIGH" -> "high"
      [] s = "LOW" -> "low"
      [] OTHER -> s

\* the truth value of an optional argument: None and "" are false
Given(s) == s \notin {NoneStr, ""}

\* the test of _validate_pin (line 134)
ValidPin(pin) == pin \in 0..MaxPinNumber

\* history: the last call made, and the direction each pin was last configured in by a
\* call of setup_pin_direction that returned, Unset if never or if cleaned up since
NoOp == [name |-> "none", pin |-> NoPin]

\* GPIOController.__init__ with the mock as GPIO (lines 90-130)
NewController(setups) ==
    [pc |-> "ready", pin_configs |-> [p \in Pins |-> Unset], pin_setups |-> setups,
     raised |-> "none", writes |-> 0, levels |-> <<>>, op |-> NoOp,
     configured |-> [p \in Pins |-> Unset]]

\* the mock's dictionary at import (lines 24-27, 83)
NoSetups == [p \in Pins |-> [direction |-> Unset, value |-> LOW]]

\* a call leaves with an exception
GpioRaise(g, exc) == [g EXCEPT !.raised = exc, !.writes = 0, !.levels = <<>>]

\* MockGPIO.setup (lines 33-45)
MockSetup(setups, pin, direction, initial, pull_up_down) ==
    [setups EXCEPT ![pin] =
        [direction |-> direction,
         value |-> IF direction = GPIO_OUT
                   THEN (IF initial # NoLevel THEN initial ELSE LOW)
                   ELSE (IF pull_up_down = PUD_UP THEN HIGH ELSE LOW)]]

\* the guard of MockGPIO.output (line 48)
MockCanOutput(setups, pin) == setups[pin].direction = GPIO_OUT

\* the guard of MockGPIO.input (line 55)
MockCanInput(setups, pin) == setups[pin].direction = GPIO_IN

\* MockGPIO.output (lines 47-52)
MockOutput(setups, pin, value) ==
    IF ~MockCanOutput(setups, pin) THEN [raised |-> "RuntimeError", setups |-> setups]
    ELSE [raised |-> "none", setups |-> [setups EXCEPT ![pin].value = value]]

\* the guard of set_pin_output and pulse_pin_output (lines 176, 206)
ConfiguredAsOutput(configs, pin) == configs[pin] = "output"

\* the guard of read_pin_input (line 190)
ConfiguredAsInput(configs, pin) == configs[pin] = "input"

\* setup_pin_direction (lines 137-171)
SetupPinDirection(g, pin, direction_str, initial_str, pull_up_down_str) ==
    IF ~ValidPin(pin) THEN GpioRaise(g, "GPIOControllerError")
    ELSE IF direction_str = NotStr THEN GpioRaise(g, "AttributeError")
    ELSE IF \/ Lower(direction_str) = "output" /\ initial_str = NotStr
            \/ Lower(direction_str) = "input" /\ pull_up_down_str = NotStr
    THEN GpioRaise(g, "GPIOControllerError")
    ELSE LET direction == IF Lower(direction_str) = "output" THEN GPIO_OUT ELSE GPIO_IN
             initial_val == IF Lower(direction_str) = "output" /\ Given(initial_str)
                            THEN (IF Lower(initial_str) = "high" THEN HIGH ELSE LOW)
                            ELSE NoLevel
             pud == IF Lower(direction_str) = "input" /\ Given(pull_up_down_str)
                    THEN (IF Lower(pull_up_down_str) = "pull_up" THEN PUD_UP
                          ELSE IF Lower(pull_up_down_str) = "pull_down" THEN PUD_DOWN
                          ELSE NoneStr)
                    ELSE NoneStr
         IN  [g EXCEPT !.pin_setups = MockSetup(@, pin, direction, initial_val, pud),
                       !.pin_configs[pin] = Lower(direction_str),
                       !.raised = "none",
                       !.writes = 0, !.levels = <<>>]

\* set_pin_output (lines 174-186)
SetPinOutput(g, pin, value_str) ==
    IF ~ValidPin(pin) THEN GpioRaise(g, "GPIOControllerError")
    ELSE IF ~ConfiguredAsOutput(g.pin_configs, pin) THEN GpioRaise(g, "GPIOControllerError")
    ELSE IF value_str = NotStr THEN GpioRaise(g, "GPIOControllerError")
    ELSE LET value == IF Lower(value_str) = "high" THEN HIGH ELSE LOW
             out == MockOutput(g.pin_setups, pin, value)
         IN  IF out.raised # "none" THEN GpioRaise(g, "GPIOControllerError")
             ELSE [g EXCEPT !.pin_setups = out.setups, !.raised = "none", !.writes = 1,
                            !.levels = <<value>>]

\* read_pin_input (lines 188-201)
ReadPinInput(g, pin) ==
    IF ~ValidPin(pin) THEN GpioRaise(g, "GPIOControllerError")
    ELSE IF ~ConfiguredAsInput(g.pin_configs, pin) THEN GpioRaise(g, "GPIOControllerError")
    ELSE IF ~MockCanInput(g.pin_setups, pin) THEN GpioRaise(g, "GPIOControllerError")
    ELSE [g EXCEPT !.raised = "none", !.writes = 0, !.levels = <<>>]

\* a duration that is no number
NotNumber == -2

\* time.sleep(duration_ms / 1000.0) returns: the duration is a number and not negative
Sleeps(duration_ms) == duration_ms # NotNumber /\ duration_ms >= 0

\* pulse_pin_output (lines 204-231)
PulsePinOutput(g, pin, duration_ms, pulse_state_str, initial_state_str) ==
    IF ~ValidPin(pin) THEN GpioRaise(g, "GPIOControllerError")
    ELSE IF ~ConfiguredAsOutput(g.pin_configs, pin) THEN GpioRaise(g, "GPIOControllerError")
    ELSE IF pulse_state_str = NotStr \/ initial_state_str = NotStr
    THEN GpioRaise(g, "GPIOControllerError")
    ELSE LET active_state == IF Lower(pulse_state_str) = "high" THEN HIGH ELSE LOW
             inactive_state ==
                 IF Given(initial_state_str)
                 THEN (IF Lower(initial_state_str) = "high" THEN HIGH ELSE LOW)
                 ELSE (IF active_state = HIGH THEN LOW ELSE HIGH)
             first == MockOutput(g.pin_setups, pin, inactive_state)
             second == MockOutput(first.setups, pin, active_state)
             third == MockOutput(second.setups, pin, inactive_state)
         IN  IF first.raised # "none" THEN GpioRaise(g, "GPIOControllerError")
             ELSE IF ~Sleeps(duration_ms)
             THEN [g EXCEPT !.pin_setups = second.setups,
                            !.raised = "GPIOControllerError",
                            !.writes = 2,
                            !.levels = <<inactive_state, active_state>>]
             ELSE [g EXCEPT !.pin_setups = third.setups, !.raised = "none", !.writes = 3,
                            !.levels = <<inactive_state, active_state, inactive_state>>]

\* cleanup, the branch taken with the mock (lines 233-263)
Cleanup(g, pin) ==
    [g EXCEPT !.pin_configs = IF pin = NoPin THEN [p \in Pins |-> Unset]
                              ELSE IF pin \in Pins THEN [@ EXCEPT ![pin] = Unset]
                              ELSE @,
              !.raised = "none",
              !.writes = 0, !.levels = <<>>]

\* the history after a call of the controller
Noted(g, name, pin, configured) ==
    [g EXCEPT !.op = [name |-> name, pin |-> pin], !.configured = configured]

\* the pins and the arguments the calls are tried with
PinArgs == Pins \cup {MaxPinNumber + 1}

DirectionArgs == {"output", "input", "OUTPUT", "tristate"}

LevelArgs == {"high", "low"}

\* pulse durations: a positive and a negative number of milliseconds
DurationArgs == {1, -1}

\* the initial_state_str of a pulse: not given (None), or a level
InitialArgs == {NoneStr} \cup LevelArgs

GpioSetup ==
    /\ gpio.pc = "ready"
    /\ \E pin \in PinArgs, direction_str \in DirectionArgs,
          initial_str \in {NoneStr, "high"}, pull_up_down_str \in {NoneStr, "pull_up"} :
           LET g == SetupPinDirection(gpio, pin, direction_str, initial_str, pull_up_down_str)
           IN  harness' = [harness EXCEPT !.gpio = Noted(g, "setup_pin_direction", pin,
                             IF g.raised = "none"
                             THEN [gpio.configured EXCEPT ![pin] = Lower(direction_str)]
                             ELSE gpio.configured)]
    /\ UNCHANGED <<receiver_vars, checker_vars>>

GpioSet ==
    /\ gpio.pc = "ready"
    /\ \E pin \in PinArgs, value_str \in LevelArgs :
           harness' = [harness EXCEPT !.gpio = Noted(SetPinOutput(gpio, pin, value_str), "set_pin_output", pin,
                         gpio.configured)]
    /\ UNCHANGED <<receiver_vars, checker_vars>>

GpioRead ==
    /\ gpio.pc = "ready"
    /\ \E pin \in PinArgs :
           harness' = [harness EXCEPT !.gpio = Noted(ReadPinInput(gpio, pin), "read_pin_input", pin, gpio.configured)]
    /\ UNCHANGED <<receiver_vars, checker_vars>>

GpioPulse ==
    /\ gpio.pc = "ready"
    /\ \E pin \in PinArgs, duration_ms \in DurationArgs, pulse_state_str \in LevelArgs,
          initial_state_str \in InitialArgs :
           harness' = [harness EXCEPT !.gpio =
               [Noted(PulsePinOutput(gpio, pin, duration_ms, pulse_state_str,
                                     initial_state_str),
                      "pulse_pin_output", pin, gpio.configured)
                EXCEPT !.op = [name |-> "pulse_pin_output", pin |-> pin,
                               duration_ms |-> duration_ms,
                               pulse_state_str |-> pulse_state_str,
                               initial_state_str |-> initial_state_str]]]
    /\ UNCHANGED <<receiver_vars, checker_vars>>

GpioCleanup ==
    /\ gpio.pc = "ready"
    /\ \E pin \in Pins \cup {NoPin} :
           harness' = [harness EXCEPT !.gpio = Noted(Cleanup(gpio, pin), "cleanup", pin,
                         IF pin = NoPin THEN [p \in Pins |-> Unset]
                         ELSE [gpio.configured EXCEPT ![pin] = Unset])]
    /\ UNCHANGED <<receiver_vars, checker_vars>>

\* GPIO.output called on the mock itself
MockOutputCall ==
    /\ gpio.pc = "ready"
    /\ \E pin \in Pins, value \in {LOW, HIGH} :
           LET out == MockOutput(gpio.pin_setups, pin, value)
           IN  harness' = [harness EXCEPT !.gpio = Noted([gpio EXCEPT !.pin_setups = out.setups,
                                          !.raised = out.raised,
                                          !.writes = IF out.raised = "none" THEN 1 ELSE 0,
                                          !.levels = IF out.raised = "none" THEN <<value>>
                                                     ELSE <<>>],
                             "GPIO.output", pin, gpio.configured)]
    /\ UNCHANGED <<receiver_vars, checker_vars>>

\* GPIO.input called on the mock itself (lines 54-60)
MockInputCall ==
    /\ gpio.pc = "ready"
    /\ \E pin \in Pins :
           harness' = [harness EXCEPT !.gpio = Noted([gpio EXCEPT !.raised = IF MockCanInput(gpio.pin_setups, pin)
                                                 THEN "none" ELSE "RuntimeError",
                                      !.writes = 0, !.levels = <<>>],
                         "GPIO.input", pin, gpio.configured)]
    /\ UNCHANGED <<receiver_vars, checker_vars>>

\* a controller over a fresh mock, nothing else running
GpioInit ==
    /\ harness = Harness(NewController(NoSetups), AtRest, AtRest, AtRest)
    /\ ReceiverAtRest
    /\ CheckerAtRest

GpioNext ==
    \/ GpioSetup \/ GpioSet \/ GpioRead \/ GpioPulse \/ GpioCleanup
    \/ MockOutputCall \/ MockInputCall

GpioSpec == GpioInit /\ [][GpioNext]_vars

\* the last call was a use of pin p that needs direction d
UsedAs(name, d) ==
    /\ gpio.op.name = name
    /\ gpio.op.pin \in Pins
    /\ gpio.configured[gpio.op.pin] # d

\* C28 (as claimed): setting or pulsing a pin that is not configured as output, or reading
\* one that is not configured as input (never configured, configured the other way, or
\* cleaned up), raises in the controller and in the mock, writes nothing to the mock and
\* leaves every pin's direction and value as they were
C28_UseBeforeConfigure ==
    [][(\/ \E name \in {"set_pin_output", "pulse_pin_output", "GPIO.output"} :
               UsedAs(name, "output")'
        \/ \E name \in {"read_pin_input", "GPIO.input"} : UsedAs(name, "input")')
        => /\ gpio'.raised # "none"
           /\ gpio'.writes = 0
           /\ gpio'.pin_setups = gpio.pin_setups
           /\ gpio'.pin_configs = gpio.pin_configs]_vars

-----------------------------------------------------------------------------
(* flash_firmware (src/stm32_flasher.py).  The record flasher holds what the call
   meets (does the firmware file exist, is the tool installed, the tool's exit
   code and what it wrote to stderr), the position of the call and what it
   returned.  Texts are sequences of characters. *)

UpperLetters ==
    <<"A", "B", "C", "D", "E", "F", "G", "H", "I", "J", "K", "L", "M", "N", "O", "P", "Q",
      "R", "S", "T", "U", "V", "W", "X", "Y", "Z">>

LowerLetters ==
    <<"a", "b", "c", "d", "e", "f", "g", "h", "i", "j", "k", "l", "m", "n", "o", "p", "q",
      "r", "s", "t", "u", "v", "w", "x", "y", "z">>

\* str.lower() of a text
LowerText(text) ==
    [i \in 1..Len(text) |->
        IF \E n \in 1..Len(UpperLetters) : UpperLetters[n] = text[i]
        THEN LowerLetters[CHOOSE n \in 1..Len(UpperLetters) : UpperLetters[n] = text[i]]
        ELSE text[i]]

\* sub in text
InText(sub, text) ==
    \E o \in 0..(Len(text) - Len(sub)) : SubSeq(text, o + 1, o + Len(sub)) = sub

\* the phrases looked for in stderr (lines 36-38)
VerifySuccess == <<"v", "e", "r", "i", "f", "y", " ", "s", "u", "c", "c", "e", "s", "s">>

WrittenAndVerified == <<"f", "l", "a", "s", "h", " ", "w", "r", "i", "t", "t", "e", "n", " ", "a", "n", "d", " ", "v", "e", "r", "i", "f", "i", "e", "d", " ", "s", "u", "c", "c", "e", "s", "s", "f", "u", "l", "l", "y">>

ErrorMarker == <<"e", "r", "r", "o", "r">>

\* the verdict on a tool run that did not raise (lines 36-48)
FlashVerdict(returncode, stderr) ==
    IF \/ InText(VerifySuccess, LowerText(stderr))
       \/ InText(WrittenAndVerified, LowerText(stderr))
       \/ (returncode = 0 /\ ~InText(ErrorMarker, LowerText(stderr)))
    THEN TRUE
    ELSE IF returncode = 0 /\ ~InText(ErrorMarker, LowerText(stderr)) THEN TRUE
    ELSE FALSE

\* the tool run of flash_firmware (lines 24-62)
ToolResult(f) ==
    IF ~f.tool_exists THEN "False"
    ELSE IF f.returncode # 0 THEN "False"
    ELSE IF FlashVerdict(f.returncode, f.stderr) THEN "True"
    ELSE "False"

\* flash_firmware (lines 17-62)
FlashFirmware(f) == IF ~f.firmware_exists THEN "False" ELSE ToolResult(f)

\* lines 17-23: the path test
FlashCall ==
    /\ flasher.pc = "call"
    /\ harness' = [harness EXCEPT !.flasher = IF ~flasher.firmware_exists
                  THEN [flasher EXCEPT !.ret = "False", !.pc = "done"]
                  ELSE [flasher EXCEPT !.pc = "run"]]
    /\ UNCHANGED <<receiver_vars, checker_vars>>

\* lines 24-62: subprocess.run with check=True, and the verdict
FlashRun ==
    /\ flasher.pc = "run"
    /\ harness' = [harness EXCEPT !.flasher = [flasher EXCEPT !.ret = ToolResult(flasher), !.pc = "done"]]
    /\ UNCHANGED <<receiver_vars, checker_vars>>

\* what the tool may write to stderr
StderrTexts ==
    {<<>>, 
     <<"F", "l", "a", "s", "h", " ", "w", "r", "i", "t", "t", "e", "n", " ", "a", "n", "d", " ", "v", "e", "r", "i", "f", "i", "e", "d", " ", "s", "u", "c", "c", "e", "s", "s", "f", "u", "l", "l", "y">>, 
     <<"V", "e", "r", "i", "f", "y", " ", "S", "u", "c", "c", "e", "s", "s">>, 
     <<"w", "r", "o", "t", "e", " ", "2", " ", "p", "a", "g", "e", "s">>, 
     <<"E", "R", "R", "O", "R", ":", " ", "n", "o", " ", "d", "e", "v", "i", "c", "e">>, 
     <<"2", " ", "e", "r", "r", "o", "r", "s">>, 
     <<"E", "r", "r", "o", "r", ";", " ", "v", "e", "r", "i", "f", "y", " ", "s", "u", "c", "c", "e", "s", "s">>, 
     <<"f", "l", "a", "s", "h", " ", "w", "r", "i", "t", "t", "e", "n", " ", "a", "n", "d", " ", "v", "e", "r", "i", "f", "i", "e", "d", " ", "s", "u", "c", "c", "e", "s", "s", "f", "u", "l", "l", "y", " ", "(", "e", "r", "r", "o", "r", " ", "c", "o", "u", "n", "t", " ", "0", ")">>}

\* the exit codes of the tool
ExitCodes == {0, 1, 255}

\* a call of flash_firmware
FlashInputs ==
    [pc : {"call"}, firmware_exists : BOOLEAN, tool_exists : BOOLEAN,
     returncode : ExitCodes, stderr : StderrTexts, ret : {"none"}]

FlashInit ==
    /\ \E call \in FlashInputs : harness = Harness(AtRest, AtRest, call, AtRest)
    /\ ReceiverAtRest
    /\ CheckerAtRest

FlashNext == FlashCall \/ FlashRun

FlashSpec == FlashInit /\ [][FlashNext]_vars

\* the tool was run: the file and the tool exist, the call has returned
ToolRan == flasher.pc = "done" /\ flasher.firmware_exists /\ flasher.tool_exists

\* C29 (as claimed): flash_firmware returns true iff the tool exits with code 0 and its
\* stderr holds no "error"; an output with "error" gives false also when it holds a
\* success phrase, a non-zero exit gives false, a missing firmware file or a missing tool
\* gives false, and the call always returns
C29_FlashVerdict ==
    flasher.pc = "done"
        => /\ flasher.ret \in {"True", "False"}
           /\ (flasher.ret = "True")
                  = (/\ flasher.firmware_exists
                     /\ flasher.tool_exists
                     /\ flasher.returncode = 0
                     /\ ~InText(ErrorMarker, LowerText(flasher.stderr)))

-----------------------------------------------------------------------------
(* emulate_hw_pins_from_file (src/pin_emulator.py).  An action of the sequence
   is a record of its entries with the set of the keys it holds; the record
   emulator holds the file met, the locals of the call, the log of the
   iterations (visited), the position of the call and what it returned. *)

\* an action without entries
NoEntries ==
    [keys |-> {}, type |-> NoneStr, pin |-> NoPin, direction |-> NoneStr,
     initial_state |-> NoneStr, pull_up_down |-> NoneStr, value |-> NoneStr,
     duration_ms |-> NotNumber, pulse_state |-> NoneStr, duration |-> NotNumber]

\* the action with one entry more
With(action, key, val) == [action EXCEPT ![key] = val, !.keys = @ \cup {key}]

\* action.get(key, default)
Get(action, key, default) == IF key \in action.keys THEN action[key] ELSE default

\* the except clauses of the loop, mutated: only the first one
CaughtControllerErrorOnly(exc) == exc = "GPIOControllerError"

\* the two except clauses of the loop (lines 82-89) catch the exception
Caught(exc) == exc \in {"GPIOControllerError", "AttributeError"}

\* the result of an iteration whose driver call has left the controller as g
Driven(g) ==
    IF g.raised = "none" THEN [g |-> g, result |-> "done"]
    ELSE IF Caught(g.raised) THEN [g |-> g, result |-> "failed"]
    ELSE [g |-> g, result |-> "escaped"]

\* an iteration that ends without a driver call
Undriven(g, result) == [g |-> g, result |-> result]

\* the test of the delay_ms duration (line 72)
ValidDuration(duration) == duration # NotNumber /\ duration >= 0

\* the body of the loop for one action (lines 32-89)
Execute(g, action) ==
    LET action_type == Get(action, "type", NoneStr)
        pin == Get(action, "pin", NoPin)
    IN  IF action_type = "set_gpio_direction"
        THEN IF pin = NoPin \/ "direction" \notin action.keys THEN Undriven(g, "skipped")
             ELSE Driven(SetupPinDirection(g, pin, action.direction,
                                            Get(action, "initial_state", NoneStr),
                                            Get(action, "pull_up_down", NoneStr)))
        ELSE IF action_type = "set_gpio_output"
        THEN IF pin = NoPin \/ "value" \notin action.keys THEN Undriven(g, "skipped")
             ELSE Driven(SetPinOutput(g, pin, action.value))
        ELSE IF action_type = "read_gpio_input"
        THEN IF pin = NoPin THEN Undriven(g, "skipped")
             ELSE Driven(ReadPinInput(g, pin))
        ELSE IF action_type = "pulse_gpio_output"
        THEN IF pin = NoPin \/ "duration_ms" \notin action.keys THEN Undriven(g, "skipped")
             ELSE Driven(PulsePinOutput(g, pin, action.duration_ms,
                                         Get(action, "pulse_state", "high"),
                                         Get(action, "initial_state", NoneStr)))
        ELSE IF action_type = "delay_ms"
        THEN IF Get(action, "duration", NotNumber) = NotNumber THEN Undriven(g, "skipped")
             ELSE IF ~ValidDuration(action.duration) THEN Undriven(g, "skipped")
             ELSE Undriven(g, "done")
        ELSE Undriven(g, "skipped")

\* lines 10-30: the file, the document, the sequence
EmulateCall ==
    /\ emulator.pc = "call"
    /\ harness' = [harness EXCEPT !.emulator =
           IF emulator.file \in {"absent", "malformed"}
           THEN [emulator EXCEPT !.ret = "None", !.pc = "returned"]
           ELSE IF emulator.file = "not_object"
           THEN [emulator EXCEPT !.raised = "AttributeError", !.pc = "raised"]
           ELSE IF emulator.emulation_sequence = <<>>
           THEN [emulator EXCEPT !.ret = "input_data", !.pc = "returned"]
           ELSE [emulator EXCEPT !.sequence_successful = TRUE, !.pc = "loop"]]
    /\ UNCHANGED <<receiver_vars, checker_vars>>

\* lines 31-91: one iteration of the loop
EmulateAction ==
    /\ emulator.pc = "loop"
    /\ emulator.action_index < Len(emulator.emulation_sequence)
    /\ LET r == Execute(gpio, emulator.emulation_sequence[emulator.action_index + 1])
       IN  harness' = [harness EXCEPT
               !.gpio = r.g,
               !.emulator =
                   IF r.result = "escaped"
                   THEN [emulator EXCEPT !.raised = r.g.raised, !.pc = "raised"]
                   ELSE [emulator EXCEPT
                            !.visited = Append(@, [index |-> emulator.action_index,
                                                   result |-> r.result]),
                            !.sequence_successful = @ /\ r.result = "done",
                            !.action_index = @ + 1]]
    /\ UNCHANGED <<receiver_vars, checker_vars>>

\* lines 93-97: the end of the loop
EmulateReturn ==
    /\ emulator.pc = "loop"
    /\ emulator.action_index = Len(emulator.emulation_sequence)
    /\ harness' = [harness EXCEPT !.emulator = [emulator EXCEPT !.ret = "input_data", !.pc = "returned"]]
    /\ UNCHANGED <<receiver_vars, checker_vars>>

\* longest action sequence tried
MaxActions == 2

\* an action of a type on a pin
On(type, pin) == With(With(NoEntries, "type", type), "pin", pin)

\* the actions tried: well-formed ones, ones that lack a required entry, ones whose
\* entries the driver rejects, delays with a bad duration, an unknown type, no type
ActionSamples ==
    {With(On("set_gpio_direction", 1), "direction", "output"),
     With(On("set_gpio_direction", 1), "direction", NotStr),
     On("set_gpio_direction", 1),
     With(On("set_gpio_output", 1), "value", "high"),
     With(On("set_gpio_output", MaxPinNumber + 1), "value", "high"),
     With(With(NoEntries, "type", "set_gpio_output"), "value", "high"),
     On("read_gpio_input", 1),
     With(On("pulse_gpio_output", 1), "duration_ms", 1),
     On("pulse_gpio_output", 1),
     With(With(NoEntries, "type", "delay_ms"), "duration", 5),
     With(With(NoEntries, "type", "delay_ms"), "duration", -1),
     With(NoEntries, "type", "delay_ms"),
     On("spi_transfer", 1),
     With(NoEntries, "pin", 1)}

\* a call of emulate_hw_pins_from_file
EmulatorInputs ==
    [pc : {"call"}, file : {"document"},
     emulation_sequence : SeqsUpTo(ActionSamples, MaxActions),
     action_index : {0}, sequence_successful : {TRUE}, visited : {<<>>},
     raised : {"none"}, ret : {"none"}]
    \cup [pc : {"call"}, file : {"absent", "malformed", "not_object"},
          emulation_sequence : {<<>>}, action_index : {0}, sequence_successful : {TRUE},
          visited : {<<>>}, raised : {"none"}, ret : {"none"}]

-----------------------------------------------------------------------------
(* main (src/main_runner.py).  The record runner holds the position of the run,
   overall_success, the exception or SystemExit on its way out of the try block
   (pending), the first exception raised (raised), the code the except clause
   has passed to sys.exit (handler_code) and the code the process has exited
   with (exit_code). *)

\* no code chosen yet
NoCode == -1

\* the code the except clauses pass to sys.exit (lines 121-140)
HandlerCode(exc) ==
    IF exc \in {"GPIOControllerError", "SerialReceiverError", "ConnectionError"} THEN 1
    ELSE 2

\* the statement of the finally clause (lines 141-149): sys.exit(0) or sys.exit(1), which
\* replaces a SystemExit on its way out
FinallyExit(overall_success, pending) == IF overall_success THEN 0 ELSE 1

\* sys.exit(code) before the try block
ExitNow(r, code) == [r EXCEPT !.exit_code = code, !.pc = "exited"]

\* an exception leaves the try block
Throw(r, exc) == [r EXCEPT !.raised = exc, !.pc = "handler"]

\* lines 43-61: the flash step
RunFlash ==
    /\ runner.pc = "start"
    /\ \E skip_flash \in BOOLEAN, f \in FlashInputs :
           harness' = [harness EXCEPT !.runner = IF skip_flash THEN [runner EXCEPT !.pc = "gpio"]
                     ELSE IF ~f.firmware_exists
                     THEN ExitNow([runner EXCEPT !.flash_failed = TRUE], 1)
                     ELSE IF FlashFirmware(f) # "True"
                     THEN ExitNow([runner EXCEPT !.flash_failed = TRUE], 1)
                     ELSE [runner EXCEPT !.pc = "gpio"]]
    /\ UNCHANGED <<receiver_vars, checker_vars>>

\* lines 64-65: GPIOController(mode_str) returns, or the library refuses the mode
RunGpioInit ==
    /\ runner.pc = "gpio"
    /\ \/ harness' = [harness EXCEPT !.gpio = NewController(NoSetups),
                                     !.runner = [runner EXCEPT !.pc = "emulate"]]
       \/ harness' = [harness EXCEPT !.runner = Throw(runner, "GPIOControllerError")]
    /\ UNCHANGED <<receiver_vars, checker_vars>>

\* lines 66-67: the call of emulate_hw_pins_from_file
RunEmulate ==
    /\ runner.pc = "emulate"
    /\ \E call \in EmulatorInputs :
           harness' = [harness EXCEPT !.emulator = call,
                                      !.runner = [runner EXCEPT !.pc = "emulating"]]
    /\ UNCHANGED <<receiver_vars, checker_vars>>

\* lines 68-74: the test of what the executor returned; __exit__ on the way out
RunAfterEmulate ==
    /\ runner.pc = "emulating"
    /\ emulator.pc \in {"returned", "raised"}
    /\ harness' =
           IF emulator.pc = "raised"
           THEN [harness EXCEPT !.runner = Throw(runner, emulator.raised),
                                !.gpio = Cleanup(gpio, NoPin)]
           ELSE IF emulator.ret = "None"
           THEN [harness EXCEPT !.runner = [runner EXCEPT !.pending = 1,
                                                          !.emulation_failed = TRUE,
                                                          !.pc = "handler"],
                                !.gpio = Cleanup(gpio, NoPin)]
           ELSE [harness EXCEPT !.runner = [runner EXCEPT !.pc = "serial"]]
    /\ UNCHANGED <<receiver_vars, checker_vars>>

\* lines 76-119: the serial step in mode "lines"; both __exit__ on the way out
RunSerial ==
    /\ runner.pc = "serial"
    /\ \E met \in {"connect_fails", "lines", "no_lines", "receive_raises"} :
           harness' = [harness EXCEPT
               !.runner = IF met \in {"connect_fails", "receive_raises"}
                          THEN Throw(runner, "SerialReceiverError")
                          ELSE [runner EXCEPT !.overall_success = TRUE, !.pc = "handler"],
               !.gpio = Cleanup(gpio, NoPin)]
    /\ UNCHANGED <<receiver_vars, checker_vars>>

\* lines 121-140: the except clauses
RunHandler ==
    /\ runner.pc = "handler"
    /\ harness' = [harness EXCEPT !.runner = IF runner.raised # "none"
                 THEN [runner EXCEPT !.handler_code = HandlerCode(runner.raised),
                                     !.pending = HandlerCode(runner.raised),
                                     !.pc = "finally"]
                 ELSE [runner EXCEPT !.pc = "finally"]]
    /\ UNCHANGED <<receiver_vars, checker_vars>>

\* lines 141-149: the finally clause
RunFinally ==
    /\ runner.pc = "finally"
    /\ harness' = [harness EXCEPT !.runner = [runner EXCEPT
                     !.exit_code = FinallyExit(runner.overall_success, runner.pending),
                     !.pc = "exited"]]
    /\ UNCHANGED <<receiver_vars, checker_vars>>

\* main is called
RunInit ==
    /\ harness = Harness(AtRest, AtRest, AtRest,
                         [pc |-> "start", overall_success |-> FALSE, pending |-> NoCode,
                          raised |-> "none", flash_failed |-> FALSE,
                          emulation_failed |-> FALSE, handler_code |-> NoCode,
                          exit_code |-> NoCode])
    /\ ReceiverAtRest
    /\ CheckerAtRest

RunNext ==
    \/ RunFlash \/ RunGpioInit \/ RunEmulate
    \/ EmulateCall \/ EmulateAction \/ EmulateReturn
    \/ RunAfterEmulate \/ RunSerial \/ RunHandler \/ RunFinally

RunSpec == RunInit /\ [][RunNext]_vars

\* the run is not stopped from outside: every step that can be taken is taken
FairRunSpec == RunSpec /\ WF_vars(RunNext)

-----------------------------------------------------------------------------
(* What the claims about the executor and the runner speak of *)

\* the log of the iterations names the actions in list order, each once
VisitedInOrder ==
    \A i \in 1..Len(emulator.visited) : emulator.visited[i].index = i - 1

\* the call has returned after an iteration for every action of the list
VisitedAll ==
    /\ emulator.pc = "returned"
    /\ Len(emulator.visited) = Len(emulator.emulation_sequence)
    /\ VisitedInOrder

\* C26: the executor never aborts the sequence: once in the loop it visits every action
\* of the list exactly once, in list order, and returns; an action of unknown type, one
\* that lacks a required entry or has an invalid one, and one whose driver call raises
\* do not keep the later actions from being executed
C26_NeverAborts ==
    /\ [](emulator.pc = "loop"
            => (VisitedInOrder /\ Len(emulator.visited) = emulator.action_index))
    /\ (emulator.pc = "loop") ~> VisitedAll

\* a driver call has raised, the action after it was executed, the call has returned
C26_Witness ==
    /\ VisitedAll
    /\ Len(emulator.visited) = 2
    /\ emulator.visited[1].result = "failed"
    /\ emulator.visited[2].result = "done"

\* an action of the sequence was skipped or has failed
SomeActionFailed ==
    \E i \in 1..Len(emulator.visited) : emulator.visited[i].result # "done"

\* C27 (as claimed): when an action was skipped or has failed, what the executor hands to
\* its caller differs from what it hands over when every action succeeded, and the run
\* does not end with the success status
C27_PartialFailureReported ==
    (runner.pc = "exited" /\ emulator.pc = "returned" /\ SomeActionFailed)
        => /\ emulator.ret # "input_data"
           /\ runner.exit_code # 0

\* the exceptions the except clauses treat as setup errors
SetupErrors == {"GPIOControllerError", "SerialReceiverError", "ConnectionError"}

\* C30 (as claimed): the process exits with 0 only when the run completed, with 1 on a
\* failed run or a setup error, with 2 on any other exception, and the code the except
\* clause has chosen is the code the process exits with
C30_ExitCodes ==
    runner.pc = "exited"
        => /\ runner.exit_code = 0
                  => (/\ runner.overall_success
                      /\ runner.raised = "none"
                      /\ ~runner.flash_failed
                      /\ ~runner.emulation_failed)
           /\ (\/ runner.flash_failed
               \/ runner.emulation_failed
               \/ runner.raised \in SetupErrors) => runner.exit_code = 1
           /\ (runner.raised \notin SetupErrors \cup {"none"}) => runner.exit_code = 2
           /\ runner.handler_code # NoCode => runner.exit_code = runner.handler_code

-----------------------------------------------------------------------------
(* The transport context managers: SerialReceiver.__enter__/__exit__
   (src/serial_receiver.py lines 175-202) and SerialConnection.__enter__/__exit__
   (src/serial_utils.py lines 117-134), used as main uses the receiver
   (src/main_runner.py lines 77-119), inside main's try block.

   transport.pc is the statement about to run:
     "enter"       signal(SIGINT, handler) of __enter__
     "connecting"  self.connect() of __enter__
     "body"        the first statement of the with-block
     "receiving"   inside the polling loop of the capture
     "returned"    the capture has returned, its result is not looked at yet
     "marked"      the result was looked at (overall_success is set)
     "disconnect"  self.disconnect() of __exit__
     "restore"     the restoring statements of __exit__
     "left"        the with statement is over
   SIGINT is delivered between any two of them while the transport's handler is installed. *)

\* what signal.signal hands back as the previous handler: a function of the program,
\* signal.default_int_handler, signal.SIG_DFL (the integer 0), signal.SIG_IGN (the integer 1)
PreviousHandlers == {"custom", "default_int_handler", "SIG_DFL", "SIG_IGN"}

\* the transport's own handler
OwnHandler == "transport"

\* `if self._original_sigint_handler:` (serial_receiver.py lines 182, 190; serial_utils.py
\* line 128): None is false, and so is SIG_DFL, an IntEnum of value 0
HandlerTruthy(h) == h \notin {"None", "SIG_DFL"}

\* signal(SIGINT, self._original_sigint_handler) under that test
Restored(t) == IF HandlerTruthy(t.original) THEN t.original ELSE t.handler

\* number of polling iterations of a capture, and of SIGINTs delivered
MaxPolls == 2

MaxSigints == 1

\* the exception classes the with-block sees
TransportKinds == {"SerialReceiver", "SerialConnection"}

\* the with statement is over: main's try block is left with the exception on its way out
\* (none, an exception, or SystemExit with the code of sys.exit); GPIOController.__exit__
Leave(t, unwinding, code) ==
    [harness EXCEPT
        !.transport = [t EXCEPT !.pc = "left", !.unwinding = unwinding],
        !.gpio = Cleanup(gpio, NoPin),
        !.runner = IF unwinding = "none" THEN [runner EXCEPT !.pc = "handler"]
                   ELSE IF unwinding = "SystemExit"
                   THEN [runner EXCEPT !.pending = code, !.pc = "handler"]
                   ELSE Throw(runner, unwinding)]

\* __enter__, first statement (serial_receiver.py line 177, serial_utils.py line 119)
TransportEnter ==
    /\ transport.pc = "enter"
    /\ harness' = [harness EXCEPT !.transport =
           [transport EXCEPT !.original = transport.handler,
                             !.handler = OwnHandler,
                             !.pc = "connecting"]]
    /\ UNCHANGED <<receiver_vars, checker_vars>>

\* __enter__, the connection (serial_receiver.py lines 178-185, serial_utils.py lines 120-123)
TransportConnect ==
    /\ transport.pc = "connecting"
    /\ \/ harness' = [harness EXCEPT !.transport =
              [transport EXCEPT !.ser = "open", !.pc = "body"]]
       \/ harness' =
              IF transport.kind = "SerialReceiver"
              THEN Leave([transport EXCEPT !.handler = Restored(transport),
                                           !.entered = FALSE],
                         "SerialReceiverError", NoCode)
              ELSE Leave([transport EXCEPT !.entered = FALSE], "ConnectionError", NoCode)
    /\ UNCHANGED <<receiver_vars, checker_vars>>

\* the with-block up to the capture (main_runner.py lines 78-87), or an exception in it
TransportUse ==
    /\ transport.pc = "body"
    /\ \/ harness' = [harness EXCEPT !.transport = [transport EXCEPT !.pc = "receiving"]]
       \/ harness' = [harness EXCEPT !.transport =
              [transport EXCEPT !.unwinding = "Exception", !.pc = "disconnect"]]
    /\ UNCHANGED <<receiver_vars, checker_vars>>

\* one polling iteration of the capture (serial_receiver.py lines 102-117)
TransportPoll ==
    /\ transport.pc = "receiving"
    /\ transport.polls < MaxPolls
    /\ harness' = [harness EXCEPT !.transport =
           [transport EXCEPT !.polls = @ + 1,
                             !.polls_after_sigint = @ + (IF transport.sigints > 0 THEN 1 ELSE 0)]]
    /\ UNCHANGED <<receiver_vars, checker_vars>>

\* the capture returns its result (serial_receiver.py lines 128-158) or raises
\* SerialReceiverError (lines 160-163)
TransportReturn ==
    /\ transport.pc = "receiving"
    /\ \/ harness' = [harness EXCEPT !.transport =
              [transport EXCEPT !.returned = TRUE,
                                !.returned_after_sigint = transport.sigints > 0,
                                !.pc = "returned"]]
       \/ harness' = [harness EXCEPT !.transport =
              [transport EXCEPT !.unwinding = "SerialReceiverError", !.pc = "disconnect"]]
    /\ UNCHANGED <<receiver_vars, checker_vars>>

\* main_runner.py lines 93-111: a list or a string is printed and overall_success is set
TransportMark ==
    /\ transport.pc = "returned"
    /\ harness' = [harness EXCEPT
           !.transport = [transport EXCEPT !.pc = "marked"],
           !.runner = [runner EXCEPT !.overall_success = TRUE]]
    /\ UNCHANGED <<receiver_vars, checker_vars>>

\* the end of the with-block: __exit__ is called
TransportEnd ==
    /\ transport.pc = "marked"
    /\ harness' = [harness EXCEPT !.transport = [transport EXCEPT !.pc = "disconnect"]]
    /\ UNCHANGED <<receiver_vars, checker_vars>>

\* __exit__, first statement: self.disconnect() (serial_receiver.py lines 45-52, 188;
\* serial_utils.py lines 32-36, 126)
TransportDisconnect ==
    /\ transport.pc = "disconnect"
    /\ harness' = [harness EXCEPT !.transport =
           [transport EXCEPT !.ser = "None", !.pc = "restore"]]
    /\ UNCHANGED <<receiver_vars, checker_vars>>

\* __exit__, the restoring statements (serial_receiver.py lines 190-192, serial_utils.py
\* lines 128-129); the exception of the block, if any, goes on
TransportRestore ==
    /\ transport.pc = "restore"
    /\ harness' = Leave([transport EXCEPT
                            !.handler = Restored(transport),
                            !.original = IF transport.kind = "SerialReceiver"
                                            /\ HandlerTruthy(transport.original)
                                         THEN "None" ELSE @],
                        transport.unwinding, runner.pending)
    /\ UNCHANGED <<receiver_vars, checker_vars>>

\* the port after the handler ran: SerialReceiver closes self.ser and keeps it
\* (serial_receiver.py lines 198-200), SerialConnection calls disconnect
\* (serial_utils.py line 133)
HandlerCloses(t) ==
    IF t.ser = "open"
    THEN IF t.kind = "SerialReceiver" THEN "closed" ELSE "None"
    ELSE IF t.kind = "SerialReceiver" THEN t.ser ELSE "None"

\* SIGINT is delivered while the transport's handler is installed: the handler closes the
\* port and calls sys_exit(1) (serial_receiver.py lines 194-202, serial_utils.py lines
\* 131-134); SystemExit is raised where the program was. Inside the with-block __exit__
\* runs; inside __enter__ or __exit__ the rest of that method is skipped
Sigint ==
    /\ transport.pc \notin {"rest", "enter", "left"}
    /\ transport.handler = OwnHandler
    /\ transport.sigints < MaxSigints
    /\ LET t == [transport EXCEPT !.sigints = @ + 1,
                                  !.sigint_at = transport.pc,
                                  !.ser = HandlerCloses(transport)]
       IN  harness' =
               IF transport.pc \in {"body", "receiving", "returned", "marked"}
               THEN [harness EXCEPT
                        !.transport = [t EXCEPT !.unwinding = "SystemExit", !.pc = "disconnect"],
                        !.runner = [runner EXCEPT !.pending = 1]]
               ELSE Leave([t EXCEPT !.entered = (transport.pc # "connecting")],
                          "SystemExit", 1)
    /\ UNCHANGED <<receiver_vars, checker_vars>>

\* the with statement is reached, inside main's try block and the GPIOController block
TransportInit ==
    /\ \E kind \in TransportKinds, previous \in PreviousHandlers :
           harness =
               [Harness(NewController(NoSetups), AtRest, AtRest,
                        [pc |-> "with", overall_success |-> FALSE, pending |-> NoCode,
                         raised |-> "none", flash_failed |-> FALSE,
                         emulation_failed |-> FALSE, handler_code |-> NoCode,
                         exit_code |-> NoCode])
                EXCEPT !.transport =
                    [pc |-> "enter", kind |-> kind, previous |-> previous,
                     handler |-> previous, original |-> "None", ser |-> "None",
                     entered |-> TRUE, unwinding |-> "none", polls |-> 0,
                     polls_after_sigint |-> 0, returned |-> FALSE,
                     returned_after_sigint |-> FALSE, sigints |-> 0,
                     sigint_at |-> "none"]]
    /\ ReceiverAtRest
    /\ CheckerAtRest

TransportNext ==
    \/ TransportEnter \/ TransportConnect \/ TransportUse \/ TransportPoll
    \/ TransportReturn \/ TransportMark \/ TransportEnd \/ TransportDisconnect
    \/ TransportRestore \/ Sigint \/ RunHandler \/ RunFinally

TransportSpec == TransportInit /\ [][TransportNext]_vars

-----------------------------------------------------------------------------
(* What the claims about the transport context managers speak of *)

\* the process has exited after a SIGINT reached the handler of a SerialReceiver
CancelledRun ==
    /\ transport.kind = "SerialReceiver"
    /\ transport.sigints > 0
    /\ runner.pc = "exited"

\* what cancellation owes: the port is closed, the capture read nothing more and returned
\* nothing after the signal, the exit status is not 0
CancellationHonoured ==
    /\ transport.ser # "open"
    /\ transport.polls_after_sigint = 0
    /\ ~transport.returned_after_sigint
    /\ runner.exit_code # 0

\* the signal came before or during the capture (main_runner.py lines 78-91)
CancelledInCapture == CancelledRun /\ transport.sigint_at \in {"connecting", "body", "receiving"}

\* the same for a signal that came no later than the return of the capture: this part holds
CancelledInCaptureHonoured == CancelledInCapture => CancellationHonoured

\* C31: whenever SIGINT is delivered while a SerialReceiver context is active, the port is
\* closed before the process exits, the capture loop reads no more, no capture result is
\* returned, and the exit status is not zero
C31_CancellationCloses == CancelledRun => CancellationHonoured

-----------------------------------------------------------------------------
(* What the claims about the cursors of the line loop speak of *)

\* the call is in the line loop (lines 176-204)
InLineLoop == check_pc = "loop"

\* number of comparison entries in the log
ComparisonCount == Cardinality({i \in 1..Len(results_log) : results_log[i].kind = "compare"})

\* where the cursors may be
CursorsInRange ==
    /\ 0 <= expected_idx
    /\ expected_idx <= received_idx
    /\ expected_idx <= Len(expected_responses_definition.m)
    /\ received_idx <= Len(received_data.m)
    /\ ComparisonCount <= Len(received_data.m)

\* C32: the line matcher never backtracks and always terminates: both cursors start at 0
\* and never decrease, the received cursor advances on every step, the expected cursor
\* never passes the received cursor, neither cursor passes the length of its sequence, and
\* the log holds at most one comparison per received line
C32_CursorsForward ==
    /\ [](InLineLoop => CursorsInRange)
    /\ [][(~InLineLoop /\ InLineLoop') => (expected_idx' = 0 /\ received_idx' = 0)]_vars
    /\ [][(InLineLoop /\ InLineLoop' /\ checker' # checker)
            => /\ received_idx' = received_idx + 1
               /\ expected_idx' >= expected_idx]_vars
    /\ (InLineLoop ~> check_pc = "done")

\* the loop has ended after a failed and a passed comparison with lines left over
C32_Witness ==
    /\ check_pc = "done"
    /\ LinesRun
    /\ 0 < expected_idx
    /\ expected_idx < received_idx
    /\ received_idx < Len(received_data.m)

-----------------------------------------------------------------------------
(* What the claim about the pulse speaks of *)

\* the last call was pulse_pin_output on a pin the controller holds as output
PulsedOutput ==
    /\ gpio.pc = "ready"
    /\ gpio.op.name = "pulse_pin_output"
    /\ ValidPin(gpio.op.pin)
    /\ ConfiguredAsOutput(gpio.pin_configs, gpio.op.pin)

\* the level a level string names (lines 210, 213)
LevelOf(s) == IF Lower(s) = "high" THEN HIGH ELSE LOW

\* the two values of the last pulse
ActiveOfPulse == LevelOf(gpio.op.pulse_state_str)

InactiveOfPulse ==
    IF Given(gpio.op.initial_state_str) THEN LevelOf(gpio.op.initial_state_str)
    ELSE IF ActiveOfPulse = HIGH THEN LOW ELSE HIGH

\* C33: a pulse on a pin configured as output writes the backend exactly three times,
\* inactive, active, inactive, and leaves the pin at the inactive value, which is the given
\* initial state or else the complement of the active value; if the backend refuses a
\* write, GPIOControllerError is raised and nothing more is written
C33_PulseShape ==
    PulsedOutput =>
        IF MockCanOutput(gpio.pin_setups, gpio.op.pin)
        THEN /\ gpio.raised = "none"
             /\ gpio.levels = <<InactiveOfPulse, ActiveOfPulse, InactiveOfPulse>>
             /\ gpio.pin_setups[gpio.op.pin].value = InactiveOfPulse
        ELSE /\ gpio.raised = "GPIOControllerError"
             /\ gpio.levels = <<>>

\* the same for the pulses whose duration is a number that is not negative: this part holds
PulseShapeForValidDuration == (PulsedOutput /\ Sleeps(gpio.op.duration_ms)) => C33_PulseShape

-----------------------------------------------------------------------------
(* What the claim about lists of exact_line expectations speaks of *)

\* the line loop has run on a list made of exact_line items only, and the call has returned
ExactLinesDone ==
    /\ check_pc = "done"
    /\ LinesRun
    /\ \A i \in 1..Len(expected_responses_definition.m) :
           ItemKind(expected_responses_definition.m[i]) = S_exact_line

\* the values of the expectations are the first received lines, in order
ExpectedIsPrefix ==
    /\ Len(received_data.m) >= Len(expected_responses_definition.m)
    /\ \A i \in 1..Len(expected_responses_definition.m) :
           received_data.m[i] = DictGet(expected_responses_definition.m[i], K_value, JNone)

\* C34: for a list of exact_line expectations the verdict in mode lines is pass iff the
\* expected values are a prefix of the received lines (so one spurious line in front of a
\* matching sequence gives fail)
C34_ExactPrefix == ExactLinesDone => (check_ret = "True" <=> ExpectedIsPrefix)

\* a spurious line in front of the lines the expectations name: the verdict is fail
C34_Witness ==
    /\ ExactLinesDone
    /\ Len(expected_responses_definition.m) > 0
    /\ Len(received_data.m) = Len(expected_responses_definition.m) + 1
    /\ \A i \in 1..Len(expected_responses_definition.m) :
           received_data.m[i + 1] = DictGet(expected_responses_definition.m[i], K_value, JNone)
    /\ ~ExpectedIsPrefix
    /\ check_ret = "False"

-----------------------------------------------------------------------------
(* What the claim about the error value of the capture speaks of *)

\* the value receive_data returns for a capture without a valid document
\* (src/serial_receiver.py lines 156, 167): an object with the keys error and buffer
IsErrorValue(v) == v.t = "object" /\ DictHas(v, K_error) /\ DictHas(v, K_buffer)

\* check_output has returned a verdict on that value in mode json_object
ErrorValueChecked ==
    /\ check_pc = "done"
    /\ IsErrorValue(received_data)
    /\ PyEq(reception_mode, JString(S_json_object))
    /\ expected_responses_definition # JNone

\* C35: a capture that ended without a valid document is never reported as passed: when
\* receive_data returned its error value, check_output in mode json_object returns fail
\* for every expected_responses definition
C35_ErrorValueFails == ErrorValueChecked => check_ret = "False"

-----------------------------------------------------------------------------
(* What the claim about the kinds of value of a json_object capture speaks of *)

\* receive_data has returned in mode json_object
DocumentCaptureReturned == mode = "json_object" /\ pc = "returned"

\* C36: in json_object mode receive_data returns either a parsed object or the error value
\* with the buffer, on every path (document found in the loop, idle timeout, overall
\* timeout with the final parse attempt): never a bare array, number, string, boolean or
\* null
C36_ObjectOrError ==
    DocumentCaptureReturned =>
        \/ outcome = "error"
        \/ outcome = "doc" /\ ret_doc.t = "object"

-----------------------------------------------------------------------------
(* What the claim about optional objects that are present speaks of *)

\* an entry of an expected object other than the marker "$optional"
NotMarker(entry) == entry.k # K_optional

\* the expected object without its marker
WithoutMarker(obj) == [obj EXCEPT !.m = SelectSeq(obj.m, NotMarker)]

\* the expected structure has one key, its value is an object with the marker, the received
\* object has the key, and the received sub-object satisfies every other expected entry
OptionalPresent ==
    /\ JsonRun
    /\ check_pc = "done"
    /\ Len(expected_responses_definition.m) = 1
    /\ LET key == expected_responses_definition.m[1].k
           exp_val == expected_responses_definition.m[1].v
       IN  /\ exp_val.t = "object"
           /\ DictHas(exp_val, K_optional)
           /\ DictHas(received_data, key)
           /\ DictGet(received_data, key, JNone).t = "object"
           /\ CompareJsonStructures(DictGet(received_data, key, JNone),
                                    WithoutMarker(exp_val), KeyPath(RootPath, key))
                  = Returns(<<>>)

\* C37: an expected object with the optional marker whose key is present is an ordinary
\* expectation: when the received sub-object satisfies every other expected entry, nothing
\* is reported, the marker itself need not be in the received data
C37_OptionalPresent == OptionalPresent => (check_ret = "True" /\ Logged(results_log) = <<>>)

-----------------------------------------------------------------------------
(* What the claim about partial matching speaks of *)

\* the received value without the keys its expected counterpart does not name, at every
\* depth the comparison descends to (objects in objects, items of arrays of equal length)
RECURSIVE Restrict(_, _)
Restrict(received_obj, expected_obj) ==
    IF expected_obj.t = "object" /\ received_obj.t = "object"
    THEN LET Named(entry) == DictHas(expected_obj, entry.k)
             kept == SelectSeq(received_obj.m, Named)
         IN  [received_obj EXCEPT !.m =
                 [i \in 1..Len(kept) |->
                     [k |-> kept[i].k,
                      v |-> Restrict(kept[i].v, DictGet(expected_obj, kept[i].k, JNone))]]]
    ELSE IF /\ expected_obj.t = "array" /\ received_obj.t = "array"
            /\ Len(expected_obj.m) = Len(received_obj.m)
    THEN [received_obj EXCEPT !.m =
             [i \in 1..Len(received_obj.m) |-> Restrict(received_obj.m[i], expected_obj.m[i])]]
    ELSE received_obj

\* the received object has keys the expected structure does not name
HasExtraKeys == Restrict(received_data, expected_responses_definition) # received_data

\* the comparison has run to its end
JsonRunDone == JsonRun /\ check_pc = "done"

\* C38: keys of the received object that the expected object does not name never produce a
\* discrepancy, at any depth: the discrepancies are those of the received object without
\* these keys (so adding such keys to an object that passes keeps it passing), and an empty
\* expected object is matched by every received object
C38_ExtraKeysIgnored ==
    JsonRunDone =>
        LET plain == CompareJsonStructures(Restrict(received_data,
                                                    expected_responses_definition),
                                           expected_responses_definition, RootPath)
        IN  /\ ~plain.raised
            /\ Logged(results_log) = plain.d
            /\ check_ret = (IF plain.d = <<>> THEN "True" ELSE "False")
            /\ expected_responses_definition = JObject(<<>>) => check_ret = "True"

\* a received object with a key its expected counterpart does not name, below the top
\* level, has passed
C38_Witness ==
    /\ JsonRunDone
    /\ HasExtraKeys
    /\ check_ret = "True"
    /\ \E i \in 1..Len(received_data.m) :
           /\ DictHas(expected_responses_definition, received_data.m[i].k)
           /\ Restrict(received_data.m[i].v,
                       DictGet(expected_responses_definition, received_data.m[i].k, JNone))
                  # received_data.m[i].v

-----------------------------------------------------------------------------
(* What the claim about the two records of the pin configuration speaks of *)

\* the direction the mock holds for what the controller holds
MockDirectionOf(config) ==
    CASE config = "output" -> GPIO_OUT
      [] config = "input" -> GPIO_IN
      [] config = Unset -> Unset
      [] OTHER -> "<no such direction>"

\* C39: after any sequence of calls on a mocked controller, the pins the controller holds
\* as configured, with their directions, are the pins set up in the mock, with the same
\* directions; after cleanup a pin is configured in neither, and a direction string other
\* than "input" and "output" does not make the two differ
C39_ControllerAndMockAgree ==
    gpio.pc = "ready" =>
        \A p \in Pins : gpio.pin_setups[p].direction = MockDirectionOf(gpio.pin_configs[p])

\* the with statement on the transport is over and no SIGINT was delivered: the block ended
\* normally, by an exception, or the connection failed during entry
ContextOver == transport.pc = "left" /\ transport.sigints = 0

\* C40: every exit path of the transport context managers restores the process state: after
\* the with-block has ended (normal exit, exception in the block, connection failure during
\* entry) the port is closed and the SIGINT handler is the one installed before entry,
\* whatever kind it was; the transport's own handler never stays installed
C40_ContextRestores ==
    ContextOver =>
        /\ transport.ser # "open"
        /\ transport.handler = transport.previous

====
